---- MODULE Spec2Model ----
(***************************************************************************)
(* Model of cloudsql-autoscaler: the machine-type catalog, the metrics     *)
(* summarizer, the scaling rules engine, the analyzer's apply step and the *)
(* daemon control loop.                                                    *)
(*                                                                         *)
(* Units.  Durations and instants are whole seconds.  Memory sizes are     *)
(* multiples of 1/5120 GB, which represents exactly both the registry's    *)
(* decimal sizes (0.6, 1.7, 3.75 GB) and custom sizes of n/1024 GB.        *)
(* Utilization samples are whole percents; a percentile is kept as the     *)
(* exact value times 100.                                                  *)
(***************************************************************************)
EXTENDS Integers, Sequences, FiniteSets, TLC

VARIABLES
    dryRun,          \* config.Config.DryRun, copied into daemonConfig.dryRun
    force,           \* config.Config.Force
    now,             \* wall clock (time.Now)
    remote,          \* the Cloud SQL service: per instance tier, edition, last scaling op
    startPc,         \* position of Daemon.Start
    loopPc,          \* position of the autoscalingLoop goroutine
    httpPc,          \* position of the startHTTPServer goroutine
    serverPc,        \* position of the inner goroutine running HTTPServer.Start
    ctxCancelled,    \* d.ctx has been cancelled
    signalled,       \* the signal handler's shutdown channel is closed
    crashed,         \* the process died of an unrecovered panic
    tickPending,     \* a tick sits in ticker.C (capacity 1)
    ticksFired,      \* ticks the ticker has produced
    cyclePc,         \* position inside RunCycle
    cyclesInFlight,  \* RunCycle activations that have not returned
    applyInFlight,   \* ApplyScaling activations that have not returned
    scalable,        \* GetScalableInstances() of the running cycle
    applyIdx,        \* loop index of applyScalingDecisions
    applyLog,        \* instances ApplyScaling was called for in this cycle
    lastErr,         \* lastErr of applyScalingDecisions
    successCount,    \* successCount of applyScalingDecisions
    cycleRet,        \* how the last finished RunCycle ended, what it returned, and
                     \* whether runAutoscalingCycle logged it as non-recoverable
    panics,          \* panics raised inside RunCycle so far
    cycleTriggers,   \* what started each cycle, in order
    recorded,        \* MetricsReporter: durations, completions, errors by type
    lastApply,       \* the most recent ApplyScaling call and what it did
    updates,         \* per instance, its latest UpdateMachineType invocation
    directCalls,     \* one-shot ApplyScaling calls made outside the daemon
    engIn,           \* input of a rules-engine evaluation
    engOut,          \* its output
    catIn,           \* tier identifier handed to a catalog function
    catOut,          \* what the catalog function returned
    projIn,          \* what a project-wide analysis or plan works on
    projOut,         \* what ProjectAnalyzer returned
    pctIn,           \* sample array and percentile handed to calculatePercentile
    pctOut,          \* what calculatePercentile returned
    newIn,           \* configuration handed to NewDaemon
    newOut           \* what NewDaemon returned

vars == << dryRun, force, now, remote, startPc, loopPc, httpPc, serverPc,
           ctxCancelled, signalled, crashed, tickPending, ticksFired,
           cyclePc, cyclesInFlight, applyInFlight, scalable,
           applyIdx, applyLog, lastErr, successCount, cycleRet,
           panics, cycleTriggers, recorded, lastApply, updates, directCalls,
           engIn, engOut, catIn, catOut, projIn, projOut,
           pctIn, pctOut,
           newIn, newOut >>

-----------------------------------------------------------------------------
(* Generic helpers *)

Max2(a, b) == IF a > b THEN a ELSE b

Min2(a, b) == IF a < b THEN a ELSE b

Nil == "nil"

-----------------------------------------------------------------------------
(* pkg/config/machine_types.go *)

GBUnit == 5120

EditionEnterprise == "ENTERPRISE"

EditionEnterprisePlus == "ENTERPRISE_PLUS"

Minute == 60

Hour == 3600

\* time.ParseDuration on the interval strings the constraints carry
ParseDuration(s) ==
    CASE s = "30m" -> 30 * Minute
      [] s = "3h"  -> 3 * Hour
      [] s = "6h"  -> 6 * Hour
      [] s = "24h" -> 24 * Hour

GetScalingConstraints(edition) ==
    CASE edition = EditionEnterprisePlus ->
            [MinUpscaleInterval |-> "30m", MinDownscaleInterval |-> "3h",
             DowntimeOnScale |-> FALSE]
      [] edition = EditionEnterprise ->
            [MinUpscaleInterval |-> "6h", MinDownscaleInterval |-> "6h",
             DowntimeOnScale |-> TRUE]
      [] OTHER ->
            [MinUpscaleInterval |-> "24h", MinDownscaleInterval |-> "24h",
             DowntimeOnScale |-> TRUE]

\* A tier identifier.  The text of a name cannot be taken apart here, so an
\* identifier carries the parts the parsers read out of it: a registry or
\* foreign name is kept whole, db-custom-<cpu>-<memMB> carries its two
\* numbers, db-perf-optimized-<suffix> carries its suffix.
RegName(n) == [kind |-> "name", id |-> n, cpu |-> 0, memMB |-> 0]

CustomName(c, m) == [kind |-> "custom", id |-> "db-custom", cpu |-> c, memMB |-> m]

PerfName(sfx) == [kind |-> "perf", id |-> sfx, cpu |-> 0, memMB |-> 0]

NoName == [kind |-> "none", id |-> "", cpu |-> 0, memMB |-> 0]

MT(n, c, m, s, t) == [Name |-> RegName(n), CPU |-> c, MemoryGB |-> m, Series |-> s, Tier |-> t]

\* MemoryGB in units of 1/5120 GB: 0.6 GB = 3072, 1.7 GB = 8704, 3.75 GB = 19200
MachineTypeRegistry == <<
    MT("db-f1-micro", 1, 3072, "f1", "micro"),
    MT("db-g1-small", 1, 8704, "g1", "small"),
    MT("db-n1-standard-1", 1, 19200, "n1", "standard"),
    MT("db-n1-standard-2", 2, 38400, "n1", "standard"),
    MT("db-n1-standard-4", 4, 15 * GBUnit, "n1", "standard"),
    MT("db-n1-standard-8", 8, 30 * GBUnit, "n1", "standard"),
    MT("db-n1-standard-16", 16, 60 * GBUnit, "n1", "standard"),
    MT("db-n1-standard-32", 32, 120 * GBUnit, "n1", "standard"),
    MT("db-n1-standard-64", 64, 240 * GBUnit, "n1", "standard"),
    MT("db-n1-standard-96", 96, 360 * GBUnit, "n1", "standard"),
    MT("db-n1-highmem-2", 2, 13 * GBUnit, "n1", "highmem"),
    MT("db-n1-highmem-4", 4, 26 * GBUnit, "n1", "highmem"),
    MT("db-n1-highmem-8", 8, 52 * GBUnit, "n1", "highmem"),
    MT("db-n1-highmem-16", 16, 104 * GBUnit, "n1", "highmem"),
    MT("db-n1-highmem-32", 32, 208 * GBUnit, "n1", "highmem"),
    MT("db-n1-highmem-64", 64, 416 * GBUnit, "n1", "highmem"),
    MT("db-n1-highmem-96", 96, 624 * GBUnit, "n1", "highmem"),
    MT("db-n2-standard-2", 2, 8 * GBUnit, "n2", "standard"),
    MT("db-n2-standard-4", 4, 16 * GBUnit, "n2", "standard"),
    MT("db-n2-standard-8", 8, 32 * GBUnit, "n2", "standard"),
    MT("db-n2-standard-16", 16, 64 * GBUnit, "n2", "standard"),
    MT("db-n2-standard-32", 32, 128 * GBUnit, "n2", "standard"),
    MT("db-n2-standard-48", 48, 192 * GBUnit, "n2", "standard"),
    MT("db-n2-standard-64", 64, 256 * GBUnit, "n2", "standard"),
    MT("db-n2-standard-80", 80, 320 * GBUnit, "n2", "standard"),
    MT("db-n2-standard-96", 96, 384 * GBUnit, "n2", "standard"),
    MT("db-n2-standard-128", 128, 512 * GBUnit, "n2", "standard"),
    MT("db-n2-highmem-2", 2, 16 * GBUnit, "n2", "highmem"),
    MT("db-n2-highmem-4", 4, 32 * GBUnit, "n2", "highmem"),
    MT("db-n2-highmem-8", 8, 64 * GBUnit, "n2", "highmem"),
    MT("db-n2-highmem-16", 16, 128 * GBUnit, "n2", "highmem"),
    MT("db-n2-highmem-32", 32, 256 * GBUnit, "n2", "highmem"),
    MT("db-n2-highmem-48", 48, 384 * GBUnit, "n2", "highmem"),
    MT("db-n2-highmem-64", 64, 512 * GBUnit, "n2", "highmem"),
    MT("db-n2-highmem-80", 80, 640 * GBUnit, "n2", "highmem"),
    MT("db-n2-highmem-96", 96, 768 * GBUnit, "n2", "highmem"),
    MT("db-n2-highmem-128", 128, 864 * GBUnit, "n2", "highmem"),
    MT("db-e2-standard-2", 2, 8 * GBUnit, "e2", "standard"),
    MT("db-e2-standard-4", 4, 16 * GBUnit, "e2", "standard"),
    MT("db-e2-standard-8", 8, 32 * GBUnit, "e2", "standard"),
    MT("db-e2-standard-16", 16, 64 * GBUnit, "e2", "standard"),
    MT("db-e2-standard-32", 32, 128 * GBUnit, "e2", "standard"),
    MT("db-e2-highmem-2", 2, 16 * GBUnit, "e2", "highmem"),
    MT("db-e2-highmem-4", 4, 32 * GBUnit, "e2", "highmem"),
    MT("db-e2-highmem-8", 8, 64 * GBUnit, "e2", "highmem"),
    MT("db-e2-highmem-16", 16, 128 * GBUnit, "e2", "highmem") >>

NoMachineType == [Name |-> NoName, CPU |-> 0, MemoryGB |-> 0, Series |-> "", Tier |-> ""]

\* A lookup result: the machine type and the error ("" when none)
Found(mt) == [mt |-> mt, err |-> ""]

Failed(e) == [mt |-> NoMachineType, err |-> e]

\* A parser that calls 4 GB per vCPU highmem already
ParseCustomHighmemAtFour(name) ==
    IF name.kind # "custom" THEN Failed("not a custom machine type")
    ELSE IF name.cpu < 1 \/ name.cpu > 96
         THEN Failed("custom machine type CPU must be between 1 and 96")
    ELSE IF name.memMB * 10 < name.cpu * 9216 \/ name.memMB * 10 > name.cpu * 66560
         THEN Failed("custom machine type memory out of range")
    ELSE Found([Name |-> name, CPU |-> name.cpu, MemoryGB |-> name.memMB * 5,
                Series |-> "custom",
                Tier |-> IF name.memMB >= 4096 * name.cpu THEN "highmem" ELSE "standard"])

\* 0.9 GB and 6.5 GB per vCPU, in MB*10 so that the comparison is exact:
\* memMB/1024 < cpu*0.9  <=>  memMB*10 < cpu*9216
parseCustomMachineType(name) ==
    IF name.kind # "custom" THEN Failed("not a custom machine type")
    ELSE IF name.cpu < 1 \/ name.cpu > 96
         THEN Failed("custom machine type CPU must be between 1 and 96")
    ELSE IF name.memMB * 10 < name.cpu * 9216 \/ name.memMB * 10 > name.cpu * 66560
         THEN Failed("custom machine type memory out of range")
    ELSE Found([Name |-> name, CPU |-> name.cpu, MemoryGB |-> name.memMB * 5,
                Series |-> "custom",
                Tier |-> IF name.memMB > 4096 * name.cpu THEN "highmem" ELSE "standard"])

PerfSequence == << "N-2", "N-4", "N-8", "N-16" >>

PerfCPU(sfx) == CASE sfx = "N-2" -> 2 [] sfx = "N-4" -> 4 [] sfx = "N-8" -> 8 [] sfx = "N-16" -> 16

parsePerformanceOptimizedMachineType(name) ==
    IF name.kind # "perf" THEN Failed("not a performance-optimized machine type")
    ELSE IF name.id \in {PerfSequence[i] : i \in 1..Len(PerfSequence)}
         THEN Found([Name |-> name, CPU |-> PerfCPU(name.id),
                     MemoryGB |-> 8 * PerfCPU(name.id) * GBUnit,
                     Series |-> "perf-optimized", Tier |-> "performance"])
         ELSE Failed("unknown performance-optimized type")

\* The keys of the entries at positions lo..hi of registry, each with the
\* position of its entry
RECURSIVE KeysIn(_, _, _)
KeysIn(registry, lo, hi) ==
    IF lo = hi THEN registry[lo].Name.id :> lo
    ELSE KeysIn(registry, lo, (lo + hi) \div 2) @@ KeysIn(registry, (lo + hi) \div 2 + 1, hi)

KeysOf(registry) == KeysIn(registry, 1, Len(registry))

RegistryKeys == KeysOf(MachineTypeRegistry)

\* The position of name's entry among keys, 0 when it has none
PosIn(keys, name) ==
    IF name.kind = "name" /\ name.id \in DOMAIN keys THEN keys[name.id] ELSE 0

\* The position of name's entry in the registry, 0 when it has none
RegistryPos(name) == PosIn(RegistryKeys, name)

\* GetMachineType once the registry has answered with position pos and the
\* two parsers with custom and perf
FirstFound(registry, pos, custom, perf) ==
    IF pos # 0 THEN Found(registry[pos])
    ELSE IF custom.err = "" THEN custom
    ELSE IF perf.err = "" THEN perf
    ELSE Failed("machine type not found")

GetMachineType(name) ==
    FirstFound(MachineTypeRegistry, RegistryPos(name), parseCustomMachineType(name),
               parsePerformanceOptimizedMachineType(name))

\* A name lookup result: the identifier and the error ("" when none)
NameOk(n) == [name |-> n, err |-> ""]

NameErr(e) == [name |-> NoName, err |-> e]

\* int(x * 1024) for x = cpu * 0.9 GB: the floor of cpu * 921.6
MinMemoryMB(cpu) == (cpu * 9216) \div 10

MaxMemoryMB(cpu) == cpu * 6656

getNextCustomMachineType(current, scaleUp) ==
    LET currentCPU == current.CPU
        currentMemoryMB == current.MemoryGB \div 5
        memHeavy == currentMemoryMB > 4096 * currentCPU
        upCPU1 == IF memHeavy /\ currentCPU < 96
                  THEN Min2(currentCPU + Max2(1, currentCPU \div 2), 96)
                  ELSE currentCPU
        upMem1 == IF memHeavy THEN currentMemoryMB
                  ELSE currentMemoryMB + Max2(1024, currentMemoryMB \div 2)
        stuck == upCPU1 = currentCPU /\ upMem1 = currentMemoryMB
        upCPU == IF stuck /\ currentCPU < 96 THEN currentCPU + 1 ELSE upCPU1
        upMem == IF stuck THEN currentMemoryMB + 1024 ELSE upMem1
        nextCPU == IF scaleUp THEN upCPU
                   ELSE Max2(1, currentCPU - Max2(1, currentCPU \div 3))
        rawMem == IF scaleUp THEN upMem
                  ELSE Max2(1024, currentMemoryMB - Max2(1024, currentMemoryMB \div 3))
        fitMem == IF rawMem * 10 < nextCPU * 9216 THEN MinMemoryMB(nextCPU)
                  ELSE IF rawMem * 10 > nextCPU * 66560 THEN MaxMemoryMB(nextCPU)
                  ELSE rawMem
        nextMemoryMB == ((fitMem + 128) \div 256) * 256
    IN  IF nextCPU = currentCPU /\ nextMemoryMB = currentMemoryMB
        THEN NameErr(IF scaleUp THEN "already at maximum custom configuration"
                     ELSE "already at minimum custom configuration")
        ELSE NameOk(CustomName(nextCPU, nextMemoryMB))

PerfIndex(cpu) == {i \in 1..Len(PerfSequence) : PerfCPU(PerfSequence[i]) = cpu}

getNextPerformanceOptimizedType(current, scaleUp) ==
    IF PerfIndex(current.CPU) = {}
    THEN NameErr("unknown performance-optimized configuration")
    ELSE LET currentIdx == CHOOSE i \in PerfIndex(current.CPU) : TRUE
             nextIdx == IF scaleUp THEN currentIdx + 1 ELSE currentIdx - 1
         IN  IF nextIdx > Len(PerfSequence)
             THEN NameErr("already at maximum performance-optimized size")
             ELSE IF nextIdx < 1
             THEN NameErr("already at minimum performance-optimized size")
             ELSE NameOk(PerfName(PerfSequence[nextIdx]))

\* The registry is a Go map: a range over it visits the entries in an order
\* the runtime chooses.  The orders considered are the listing order and its
\* reverse; OrderOf gives the visiting order as a sequence of positions.
MapOrders == {"ascending", "descending"}

OrderOf(o, n) ==
    IF o = "ascending" THEN [i \in 1..n |-> i] ELSE [i \in 1..n |-> n + 1 - i]

\* A loop that keeps the first candidate it meets
RECURSIVE FirstUpgrade(_, _, _, _, _, _)
FirstUpgrade(registry, order, lo, hi, current, next) ==
    IF lo > hi THEN next
    ELSE LET mt == registry[order[lo]]
             isCandidate == /\ mt.Series = current.Series
                            /\ mt.Tier = current.Tier
                            /\ (mt.CPU > current.CPU \/ mt.MemoryGB > current.MemoryGB)
         IN  IF isCandidate /\ next = NoMachineType THEN mt
             ELSE IF next = NoMachineType
             THEN FirstUpgrade(registry, order, lo + 1, hi, current, NoMachineType)
             ELSE next

\* The range loop of GetNextLargerMachineType over positions lo..hi of the
\* visiting order of registry, entered with next as found so far.  A longer
\* range is run as its first half followed by its second half.
RECURSIVE SmallestUpgrade(_, _, _, _, _, _)
SmallestUpgrade(registry, order, lo, hi, current, next) ==
    IF lo > hi THEN next
    ELSE IF lo = hi
    THEN LET mt == registry[order[lo]]
             isCandidate == /\ mt.Series = current.Series
                            /\ mt.Tier = current.Tier
                            /\ (mt.CPU > current.CPU \/ mt.MemoryGB > current.MemoryGB)
             take == isCandidate /\ (next = NoMachineType
                                     \/ (mt.CPU < next.CPU /\ mt.MemoryGB >= current.MemoryGB))
         IN  IF take THEN mt ELSE next
    ELSE LET first == SmallestUpgrade(registry, order, lo, (lo + hi) \div 2, current, next)
         IN  IF first = NoMachineType
             THEN SmallestUpgrade(registry, order, (lo + hi) \div 2 + 1, hi, current,
                                  NoMachineType)
             ELSE SmallestUpgrade(registry, order, (lo + hi) \div 2 + 1, hi, current, first)

\* The loop's result for the entries at lo..hi of registry under visiting
\* order o, worked out once
RECURSIVE UpgradesIn(_, _, _, _)
UpgradesIn(registry, o, lo, hi) ==
    IF lo = hi
    THEN << SmallestUpgrade(registry, OrderOf(o, Len(registry)), 1, Len(registry),
                            registry[lo], NoMachineType) >>
    ELSE UpgradesIn(registry, o, lo, (lo + hi) \div 2)
         \o UpgradesIn(registry, o, (lo + hi) \div 2 + 1, hi)

UpgradesOf(registry) ==
    ("ascending" :> UpgradesIn(registry, "ascending", 1, Len(registry)))
    @@ ("descending" :> UpgradesIn(registry, "descending", 1, Len(registry)))

Upgrades == UpgradesOf(MachineTypeRegistry)

\* GetNextLargerMachineType once GetMachineType has answered with current and
\* the range loop with next
NextLargerOf(current, next) ==
    IF current.err # "" THEN NameErr(current.err)
    ELSE IF current.mt.Series = "custom" THEN getNextCustomMachineType(current.mt, TRUE)
    ELSE IF current.mt.Series = "perf-optimized"
         THEN getNextPerformanceOptimizedType(current.mt, TRUE)
    ELSE IF next = NoMachineType THEN NameErr("no larger machine type available")
    ELSE NameOk(next.Name)

\* The range loop's result for the registry entry at pos, none without entry
LoopResult(table, pos) == IF pos = 0 THEN NoMachineType ELSE table[pos]

GetNextLargerMachineType(currentType, order) ==
    NextLargerOf(GetMachineType(currentType),
                 LoopResult(Upgrades[order], RegistryPos(currentType)))

\* A loop that keeps the first candidate it meets
RECURSIVE FirstDowngrade(_, _, _, _, _, _)
FirstDowngrade(registry, order, lo, hi, current, next) ==
    IF lo > hi THEN next
    ELSE LET mt == registry[order[lo]]
             isCandidate == /\ mt.Series = current.Series
                            /\ mt.Tier = current.Tier
                            /\ mt.CPU < current.CPU
                            /\ mt.MemoryGB < current.MemoryGB
         IN  IF isCandidate /\ next = NoMachineType THEN mt
             ELSE IF next = NoMachineType
             THEN FirstDowngrade(registry, order, lo + 1, hi, current, NoMachineType)
             ELSE next

\* The range loop of GetNextSmallerMachineType, run like SmallestUpgrade
RECURSIVE LargestDowngrade(_, _, _, _, _, _)
LargestDowngrade(registry, order, lo, hi, current, next) ==
    IF lo > hi THEN next
    ELSE IF lo = hi
    THEN LET mt == registry[order[lo]]
             isCandidate == /\ mt.Series = current.Series
                            /\ mt.Tier = current.Tier
                            /\ mt.CPU < current.CPU
                            /\ mt.MemoryGB < current.MemoryGB
             take == isCandidate /\ (next = NoMachineType \/ mt.CPU > next.CPU)
         IN  IF take THEN mt ELSE next
    ELSE LET first == LargestDowngrade(registry, order, lo, (lo + hi) \div 2, current, next)
         IN  IF first = NoMachineType
             THEN LargestDowngrade(registry, order, (lo + hi) \div 2 + 1, hi, current,
                                   NoMachineType)
             ELSE LargestDowngrade(registry, order, (lo + hi) \div 2 + 1, hi, current, first)

RECURSIVE DowngradesIn(_, _, _, _)
DowngradesIn(registry, o, lo, hi) ==
    IF lo = hi
    THEN << LargestDowngrade(registry, OrderOf(o, Len(registry)), 1, Len(registry),
                             registry[lo], NoMachineType) >>
    ELSE DowngradesIn(registry, o, lo, (lo + hi) \div 2)
         \o DowngradesIn(registry, o, (lo + hi) \div 2 + 1, hi)

DowngradesOf(registry) ==
    ("ascending" :> DowngradesIn(registry, "ascending", 1, Len(registry)))
    @@ ("descending" :> DowngradesIn(registry, "descending", 1, Len(registry)))

Downgrades == DowngradesOf(MachineTypeRegistry)

\* GetNextSmallerMachineType once GetMachineType has answered with current
\* and the range loop with next
NextSmallerOf(current, next) ==
    IF current.err # "" THEN NameErr(current.err)
    ELSE IF current.mt.Series = "custom" THEN getNextCustomMachineType(current.mt, FALSE)
    ELSE IF current.mt.Series = "perf-optimized"
         THEN getNextPerformanceOptimizedType(current.mt, FALSE)
    ELSE IF next = NoMachineType THEN NameErr("no smaller machine type available")
    ELSE NameOk(next.Name)

GetNextSmallerMachineType(currentType, order) ==
    NextSmallerOf(GetMachineType(currentType),
                  LoopResult(Downgrades[order], RegistryPos(currentType)))

-----------------------------------------------------------------------------
(* cloudsql metrics summary (CalculateMetricsSummary and its helpers) *)

RECURSIVE InsertSorted(_, _)
InsertSorted(sorted, v) ==
    IF sorted = << >> THEN << v >>
    ELSE IF v <= Head(sorted) THEN << v >> \o sorted
    ELSE << Head(sorted) >> \o InsertSorted(Tail(sorted), v)

\* sort.Float64s
RECURSIVE SortFloat64s(_)
SortFloat64s(values) ==
    IF values = << >> THEN << >>
    ELSE InsertSorted(SortFloat64s(Tail(values)), Head(values))

\* A percentile read off the array as it came, without sorting it
PercentileWithoutSorting(values, percentile) ==
    IF Len(values) = 0 THEN 0
    ELSE LET index100 == percentile * (Len(values) - 1)
             lower == index100 \div 100
             upper == lower + 1
             weight100 == index100 % 100
         IN  IF upper >= Len(values) THEN values[Len(values)] * 100
             ELSE values[lower + 1] * (100 - weight100) + values[upper + 1] * weight100

\* The result is the percentile times 100: with index = p/100 * (n-1),
\* lower = int(index) and weight = index - lower, the value
\* sorted[lower]*(1-weight) + sorted[upper]*weight has denominator 100.
calculatePercentile(values, percentile) ==
    IF Len(values) = 0 THEN 0
    ELSE LET sorted == SortFloat64s(values)
             index100 == percentile * (Len(sorted) - 1)
             lower == index100 \div 100
             upper == lower + 1
             weight100 == index100 % 100
         IN  IF upper >= Len(sorted) THEN sorted[Len(sorted)] * 100
             ELSE sorted[lower + 1] * (100 - weight100) + sorted[upper + 1] * weight100

RECURSIVE calculateMax(_)
calculateMax(values) ==
    IF Len(values) = 0 THEN 0
    ELSE IF Len(values) = 1 THEN values[1]
    ELSE Max2(values[1], calculateMax(Tail(values)))

EmptySummary == [DataPoints |-> 0, Period |-> 0, CPUP95 |-> 0, CPUMax |-> 0, MemoryP95Pct |-> 0]

CalculateMetricsSummary(data) ==
    IF Len(data.Timestamps) = 0 THEN EmptySummary
    ELSE [DataPoints   |-> Len(data.Timestamps),
          Period       |-> data.Timestamps[Len(data.Timestamps)] - data.Timestamps[1],
          CPUP95       |-> calculatePercentile(data.CPUUtilization, 95),
          CPUMax       |-> calculateMax(data.CPUUtilization),
          MemoryP95Pct |-> calculatePercentile(data.MemoryPercent, 95)]

-----------------------------------------------------------------------------
(* rules engine and cloudsql.ScalingDecision *)

\* time.Time{}: the zero instant, for which IsZero() holds
ZeroTime == -1

NoReason == [text |-> "", wait |-> 0]

\* A month's cost at 0.0475 $/vCPU/hour and 0.0080 $/GB/hour over 24*30
\* hours, in units of 1/8000 dollar: 0.0475*720 = 273600/8000 per vCPU and
\* 0.0080*720/GBUnit = 9/8000 per memory unit
MonthlyCost(mt) == mt.CPU * 273600 + mt.MemoryGB * 9

\* The result is in units of 1/8000 dollar
EstimateCostSavings(currentType, recommendedType) ==
    MonthlyCost(GetMachineType(currentType).mt) - MonthlyCost(GetMachineType(recommendedType).mt)

\* Duration.Round(time.Minute) of a non-negative duration
RoundMinute(d) == ((d + 30) \div Minute) * Minute

\* A scale-up test that asks for both the CPU and the memory to be busy
ScaleUpNeedsBoth(cfg, metrics) ==
    /\ metrics.CPUP95 > cfg.ScaleUpThreshold * 100
    /\ metrics.MemoryP95Pct > cfg.ScaleUpThreshold * 100

\* cfg.ScaleUpThreshold and cfg.ScaleDownThreshold are kept times 100, the
\* P95 values times 100 again
shouldScaleUp(cfg, metrics) ==
    LET cpuExceeds == metrics.CPUP95 > cfg.ScaleUpThreshold * 100
        memoryExceeds == metrics.MemoryP95Pct > cfg.ScaleUpThreshold * 100
    IN  cpuExceeds \/ memoryExceeds

shouldScaleDown(cfg, metrics) ==
    LET cpuLow == metrics.CPUP95 < cfg.ScaleDownThreshold * 100
        memoryLow == metrics.MemoryP95Pct < cfg.ScaleDownThreshold * 100
    IN  cpuLow /\ memoryLow

\* A timing check that measures both directions by the upscale interval
CheckDowntimeByUpscaleInterval(instance, isUpscale, t) ==
    IF instance.LastScaledTime = ZeroTime THEN [expected |-> FALSE, reason |-> NoReason]
    ELSE IF t - instance.LastScaledTime < 30 * Minute
    THEN [expected |-> TRUE,
          reason |-> [text |-> "Scaling within interval",
                      wait |-> ((30 * Minute - (t - instance.LastScaledTime) + 30) \div Minute)
                               * Minute]]
    ELSE [expected |-> FALSE, reason |-> NoReason]

checkDowntimeForEnterprisePlus(instance, isUpscale, t) ==
    IF instance.LastScaledTime = ZeroTime THEN [expected |-> FALSE, reason |-> NoReason]
    ELSE LET timeSinceLastScale == t - instance.LastScaledTime
             constraints == GetScalingConstraints(EditionEnterprisePlus)
             minInterval == IF isUpscale THEN ParseDuration(constraints.MinUpscaleInterval)
                            ELSE ParseDuration(constraints.MinDownscaleInterval)
         IN  IF timeSinceLastScale < minInterval
             THEN [expected |-> TRUE,
                   reason |-> [text |-> IF isUpscale THEN "Scaling within interval"
                                        ELSE "Downscaling within interval",
                               wait |-> RoundMinute(minInterval - timeSinceLastScale)]]
             ELSE [expected |-> FALSE, reason |-> NoReason]

NoScale(instance, metrics, reason) ==
    [ShouldScale |-> FALSE, CurrentType |-> instance.MachineType,
     RecommendedType |-> NoName, Reason |-> reason,
     DowntimeExpected |-> FALSE, DowntimeReason |-> NoReason,
     EstimatedSavings |-> 0, Metrics |-> metrics]

\* A data check that is off by one
InsufficientDataBelowNine(metrics) == metrics.DataPoints < 9

\* The engine's data check of DataPoints
InsufficientData(metrics) == metrics.DataPoints < 10

\* A downtime check that looks at the timing only
DowntimeByTimingOnly(instance, isUpscale, t) ==
    checkDowntimeForEnterprisePlus(instance, isUpscale, t)

\* The downtime a scaling of instance at instant t brings with it
DowntimeOf(instance, isUpscale, t) ==
    IF GetScalingConstraints(instance.Edition).DowntimeOnScale
    THEN [expected |-> TRUE,
          reason |-> [text |-> "Enterprise edition requires downtime", wait |-> 0]]
    ELSE checkDowntimeForEnterprisePlus(instance, isUpscale, t)

\* A catalog failure handed on to the caller as the engine's error
CatalogFailureReturned(instance, metrics, scaleUp, catalogErr) ==
    [decision |-> NoScale(instance, metrics,
                          (IF scaleUp THEN "Cannot scale up: " ELSE "Cannot scale down: ")
                          \o catalogErr),
     err |-> catalogErr]

\* Engine.AnalyzeInstance when the catalog has no target tier: the decision
\* not to scale carries the catalog's error in its reason, and no error is
\* returned
CatalogFailure(instance, metrics, scaleUp, catalogErr) ==
    [decision |-> NoScale(instance, metrics,
                          (IF scaleUp THEN "Cannot scale up: " ELSE "Cannot scale down: ")
                          \o catalogErr),
     err |-> Nil]

\* Engine.AnalyzeInstance from its data check on, with the two threshold
\* tests answered by scaleUp and scaleDown and the tier lookup by target
Decide(instance, metrics, t, scaleUp, scaleDown, target, downtime) ==
    IF InsufficientData(metrics)
    THEN [decision |-> NoScale(instance, metrics, "Insufficient metrics data for analysis"),
          err |-> Nil]
    ELSE IF ~scaleUp /\ ~scaleDown
    THEN [decision |-> NoScale(instance, metrics, "Current utilization is within target range"),
          err |-> Nil]
    ELSE IF target.err # "" THEN CatalogFailure(instance, metrics, scaleUp, target.err)
    ELSE [decision |->
            [ShouldScale |-> TRUE, CurrentType |-> instance.MachineType,
             RecommendedType |-> target.name,
             Reason |-> IF scaleUp THEN "High resource utilization detected"
                        ELSE "Low resource utilization detected",
             DowntimeExpected |-> downtime.expected,
             DowntimeReason |-> downtime.reason,
             EstimatedSavings |-> EstimateCostSavings(instance.MachineType, target.name),
             Metrics |-> metrics],
          err |-> Nil]

\* The tier the engine looks up: the next larger one to scale up, the next
\* smaller one otherwise
TargetOf(scaleUp, larger, smaller) == IF scaleUp THEN larger ELSE smaller

\* Engine.AnalyzeInstance at instant t, ranging over the registry in order;
\* the result pairs the decision with the returned error
EngineAnalyzeInstance(cfg, instance, metrics, t, order) ==
    Decide(instance, metrics, t, shouldScaleUp(cfg, metrics), shouldScaleDown(cfg, metrics),
           TargetOf(shouldScaleUp(cfg, metrics),
                    GetNextLargerMachineType(instance.MachineType, order),
                    GetNextSmallerMachineType(instance.MachineType, order)),
           DowntimeOf(instance, shouldScaleUp(cfg, metrics), t))

\* A validation that leaves out the downtime check
ValidateIgnoringDowntime(decision, forced) ==
    IF ~decision.ShouldScale THEN Nil
    ELSE IF decision.CurrentType = decision.RecommendedType
    THEN "recommended type is the same as current type"
    ELSE Nil

\* Engine.ValidateScalingDecision: the error, Nil when the decision passes
ValidateScalingDecision(decision, forced) ==
    IF ~decision.ShouldScale THEN Nil
    ELSE IF decision.DowntimeExpected /\ ~forced
    THEN "scaling operation would cause downtime"
    ELSE IF decision.CurrentType = decision.RecommendedType
    THEN "recommended type is the same as current type"
    ELSE Nil

-----------------------------------------------------------------------------
(* Bounds and the environment's inputs *)

MaxTicks == 1

MaxClock == 30 * Minute

MaxDirectCalls == 1

\* How far the clock moves in one step
ClockSteps == {30 * Minute}

\* The project's instances, in the order Instances.List returns them
InstanceList == << "a", "b" >>

Instances == {InstanceList[k] : k \in 1..Len(InstanceList)}

\* config.DefaultConfig: thresholds 0.8 and 0.5, kept times 100
DefaultConfig == [ScaleUpThreshold |-> 80, ScaleDownThreshold |-> 50]

\* n samples taken 5 minutes apart, all at cpu percent CPU and mem percent memory
MkData(n, cpu, mem) ==
    [Timestamps     |-> [k \in 1..n |-> k * 5 * Minute],
     CPUUtilization |-> [k \in 1..n |-> cpu],
     MemoryPercent  |-> [k \in 1..n |-> mem]]

\* The metric series the monitoring service may return: too few samples, a
\* busy instance, an idle instance
MetricsInputs == << MkData(9, 95, 95), MkData(10, 95, 40), MkData(10, 30, 30) >>

\* CalculateMetricsSummary of each series, worked out once
RECURSIVE SummariesUpTo(_)
SummariesUpTo(k) ==
    IF k = 0 THEN << >>
    ELSE Append(SummariesUpTo(k - 1), CalculateMetricsSummary(MetricsInputs[k]))

Summaries == SummariesUpTo(Len(MetricsInputs))

\* What the services answer for one instance during an analysis: whether the
\* instance and its metrics could be fetched, which series came back, and
\* whether the operations listing produced the last scaling time
AnalysisInputs ==
    {[ok |-> FALSE, m |-> 1, lookup |-> FALSE]}
    \cup {[ok |-> TRUE, m |-> k, lookup |-> l] : k \in 1..Len(MetricsInputs), l \in BOOLEAN}

\* The answers considered where the cycle's outcome matters and its details
\* do not: the instance cannot be analysed, or it is busy and unscaled so far
OutcomeInputs ==
    {[ok |-> FALSE, m |-> 1, lookup |-> FALSE], [ok |-> TRUE, m |-> 2, lookup |-> FALSE]}

-----------------------------------------------------------------------------
(* Errors.  An error value carries its message and the instance it is about,
   so that two failures of one cycle are told apart. *)

NilErr == [msg |-> Nil, inst |-> ""]

Err(m, i) == [msg |-> m, inst |-> i]

\* daemon.NewDaemonError; a nil *DaemonError has the message Nil
NewDaemonError(op, phase, msg) == [Op |-> op, Phase |-> phase, Err |-> msg]

NoDaemonError == NewDaemonError("", "", Nil)

\* A validation that lets the port 0 through, as Start does for "no HTTP server"
ValidateAllowingNoPort(cfg, interval, httpPort) ==
    IF cfg.nil \/ cfg.ProjectID = "" \/ interval <= 0 \/ httpPort < 0 \/ httpPort > 65535
    THEN NewDaemonError("validate", "config", "invalid daemon configuration")
    ELSE NoDaemonError

\* daemon.validateConfig
validateConfig(cfg, interval, httpPort) ==
    IF cfg.nil THEN NewDaemonError("validate", "config", "invalid daemon configuration")
    ELSE IF cfg.ProjectID = ""
         THEN NewDaemonError("validate", "config", "invalid daemon configuration")
    ELSE IF interval <= 0
         THEN NewDaemonError("validate", "config", "invalid daemon configuration")
    ELSE IF httpPort < 1 \/ httpPort > 65535
         THEN NewDaemonError("validate", "config", "invalid daemon configuration")
    ELSE NoDaemonError

\* No configuration: a nil *config.Config
NoNewIn ==
    [cfg |-> [nil |-> TRUE, ProjectID |-> "", DryRun |-> FALSE], interval |-> 0,
     httpPort |-> 0, analyzerOk |-> FALSE]

\* daemon.WrapError: a DaemonError around err, nil for nil
WrapError(op, err) ==
    IF err = NilErr THEN [op |-> "", err |-> NilErr] ELSE [op |-> op, err |-> err]

NoReturn == WrapError("", NilErr)

\* daemon.IsRecoverable: err is a DaemonError and the error it wraps is, or
\* wraps, the sentinel ErrAnalyzerFailed
IsRecoverable(err) == err # NoReturn /\ err.err.msg = "analyzer operation failed"

-----------------------------------------------------------------------------
(* cloudsql.Client and analyzer.Analyzer *)

\* Client.GetInstance: the descriptor built from the service's record; the
\* last scaled time is left zero here
GetInstance(i) ==
    [Name |-> i,
     MachineType |-> remote[i].tier,
     Edition |-> IF remote[i].edition = "ENTERPRISE_PLUS" THEN EditionEnterprisePlus
                 ELSE EditionEnterprise,
     LastScaledTime |-> ZeroTime]

\* Client.GetLastScalingTime: the insert time of the instance's latest
\* finished update when the listing yields it, the zero time (with an error
\* the caller drops) when the listing fails or does not contain it
GetLastScalingTime(i, lookup) ==
    IF lookup THEN remote[i].lastOp ELSE ZeroTime

\* Analyzer.AnalyzeInstance for an instance whose data could be fetched
AnalyzerAnalyzeInstance(i, inp, t, order) ==
    LET instance == [GetInstance(i) EXCEPT !.LastScaledTime = GetLastScalingTime(i, inp.lookup)]
        summary == Summaries[inp.m]
        analysis == EngineAnalyzeInstance(DefaultConfig, instance, summary, t, order)
    IN  [Instance |-> instance, Summary |-> summary, Decision |-> analysis.decision]

\* The ProjectAnalysisResult AnalyzeAllInstances returns: the total is the
\* length of its first listing, the results come from its second one
ProjectResult(res, totalCount) ==
    [Results |-> res, TotalInstances |-> totalCount, AnalyzedInstances |-> Len(res)]

\* A loop that stops at the first instance whose analysis fails
AnalyzeUntilFailure(inp, t, order, totalCount) ==
    LET failed == {k \in 1..Len(InstanceList) : ~inp[InstanceList[k]].ok}
        analyzed == IF failed = {} THEN InstanceList
                    ELSE SubSeq(InstanceList, 1, (CHOOSE k \in failed : \A j \in failed : k <= j) - 1)
    IN  ProjectResult([k \in 1..Len(analyzed) |->
                          AnalyzerAnalyzeInstance(analyzed[k], inp[analyzed[k]], t, order)],
                      totalCount)

\* ProjectAnalyzer.AnalyzeAllInstances when both listings succeed.  The first
\* listing held totalCount instances; InstanceList is what the second one,
\* made after it, returns.  An empty first listing ends the analysis; else
\* the instances whose analysis fails are skipped.
AnalyzeAllInstances(inp, t, order, totalCount) ==
    LET analyzed == SelectSeq(InstanceList, LAMBDA i : inp[i].ok)
    IN  IF totalCount = 0 THEN ProjectResult(<< >>, 0)
        ELSE ProjectResult([k \in 1..Len(analyzed) |->
                               AnalyzerAnalyzeInstance(analyzed[k], inp[analyzed[k]], t, order)],
                           totalCount)

\* ProjectAnalysisResult.GetScalableInstances
GetScalableInstances(p) == SelectSeq(p.Results, LAMBDA r : r.Decision.ShouldScale)

\* calculatePriority: P95 values are kept times 100, savings in 1/8000 dollar
calculatePriority(result) ==
    (IF result.Summary.CPUP95 > 90 * 100 \/ result.Summary.MemoryP95Pct > 90 * 100 THEN 50
     ELSE IF result.Summary.CPUP95 > 80 * 100 \/ result.Summary.MemoryP95Pct > 80 * 100 THEN 30
     ELSE 0)
    + (IF ~result.Decision.DowntimeExpected THEN 20 ELSE 0)
    + (IF result.Decision.EstimatedSavings > 100 * 8000 THEN 10 ELSE 0)

\* The less function GenerateScalingPlan sorts with: higher priority first
less(x, y) == x.Priority > y.Priority

\* lessSwap.Swap of the sort package
SwapAt(data, i, j) == [data EXCEPT ![i] = data[j], ![j] = data[i]]

\* insertionSort of the sort package on data[lo..hi]
insertionSort(data, lo, hi) ==
    LET RECURSIVE Sink(_, _)
        Sink(d, j) == IF j > lo /\ less(d[j], d[j - 1])
                      THEN Sink(SwapAt(d, j, j - 1), j - 1)
                      ELSE d
        RECURSIVE Loop(_, _)
        Loop(d, i) == IF i > hi THEN d ELSE Loop(Sink(d, i), i + 1)
    IN  Loop(data, lo + 1)

\* choosePivot of the sort package for 8 to 49 elements: the median of the
\* elements at the three quarter positions, and the number of swaps it took
choosePivot(data, lo, hi) ==
    LET l == hi - lo + 1
        order2(x, y) == IF less(data[y], data[x]) THEN << y, x, 1 >> ELSE << x, y, 0 >>
        ab == order2(lo + (l \div 4), lo + (l \div 4) * 2)
        bc == order2(ab[2], lo + (l \div 4) * 3)
        med == order2(ab[1], bc[1])
    IN  [pivot |-> med[2], swaps |-> ab[3] + bc[3] + med[3]]

\* partition of the sort package: data[lo..hi] arranged around data[pivot],
\* and the pivot's new position
partition(data, lo, hi, pivot) ==
    LET RECURSIVE Up(_, _, _)
        Up(d, i, j) == IF i <= j /\ less(d[i], d[lo]) THEN Up(d, i + 1, j) ELSE i
        RECURSIVE Down(_, _, _)
        Down(d, i, j) == IF i <= j /\ ~less(d[j], d[lo]) THEN Down(d, i, j - 1) ELSE j
        RECURSIVE Scan(_, _, _)
        Scan(d, i, j) ==
            LET i2 == Up(d, i, j)
                j2 == Down(d, i2, j)
            IN  IF i2 > j2 THEN [data |-> SwapAt(d, j2, lo), mid |-> j2]
                ELSE Scan(SwapAt(d, i2, j2), i2 + 1, j2 - 1)
    IN  Scan(SwapAt(data, lo, pivot), lo + 1, hi)

\* sort.Slice for at most 13 elements: pdqsort sorts up to 12 elements by
\* insertion; 13 elements it leaves alone when the pivot took no swap and
\* they are in order, and otherwise partitions once and sorts both sides by
\* insertion
SortSlice(data) ==
    LET n == Len(data)
        inOrder == \A i \in 2..n : ~less(data[i], data[i - 1])
        parted == partition(data, 1, n, choosePivot(data, 1, n).pivot)
    IN  IF n <= 12 THEN insertionSort(data, 1, n)
        ELSE IF choosePivot(data, 1, n).swaps = 0 /\ inOrder THEN data
        ELSE insertionSort(insertionSort(parted.data, 1, parted.mid - 1), parted.mid + 1, n)

\* ProjectAnalysisResult.GenerateScalingPlan
GenerateScalingPlan(p) ==
    LET sc == GetScalableInstances(p)
        ops == [k \in 1..Len(sc) |->
                   [Instance |-> sc[k].Instance.Name,
                    CurrentType |-> sc[k].Decision.CurrentType,
                    TargetType |-> sc[k].Decision.RecommendedType,
                    Reason |-> sc[k].Decision.Reason,
                    DowntimeExpected |-> sc[k].Decision.DowntimeExpected,
                    Priority |-> calculatePriority(sc[k])]]
    IN  SortSlice(ops)

\* An ApplyScaling that does not look at the dry-run flag
ApplyScalingIgnoringDryRun(i, decision, cfgForce, cfgDryRun) ==
    IF ~decision.ShouldScale
    THEN [err |-> Err("no scaling recommended", i), update |-> FALSE]
    ELSE IF ValidateScalingDecision(decision, cfgForce) # Nil
    THEN [err |-> Err(ValidateScalingDecision(decision, cfgForce), i), update |-> FALSE]
    ELSE [err |-> NilErr, update |-> TRUE]

\* Analyzer.ApplyScaling up to the call of UpdateMachineType: the error it
\* returns before that call, and whether it goes on to make the call
ApplyScaling(i, decision, cfgForce, cfgDryRun) ==
    IF ~decision.ShouldScale
    THEN [err |-> Err("no scaling recommended", i), update |-> FALSE]
    ELSE IF ValidateScalingDecision(decision, cfgForce) # Nil
    THEN [err |-> Err(ValidateScalingDecision(decision, cfgForce), i), update |-> FALSE]
    ELSE IF cfgDryRun
    THEN [err |-> NilErr, update |-> FALSE]
    ELSE [err |-> NilErr, update |-> TRUE]

\* Whether a move from one tier to another adds resources
Larger(currentMT, recommendedMT) ==
    recommendedMT.CPU > currentMT.CPU \/ recommendedMT.MemoryGB > currentMT.MemoryGB

IsUpscale(from, to) == Larger(GetMachineType(from).mt, GetMachineType(to).mt)

-----------------------------------------------------------------------------
(* The one-shot command of cmd/cloudsql-autoscaler *)

\* The OutputResult of an analysed instance, as both analyzeSpecificInstances
\* and analyzeAllInstances fill it in: the scaling is applied unless the
\* instance needs none or the command runs dry; updateOk says whether the
\* machine-type update, if ApplyScaling gets to it, succeeds
OutputResult(result, updateOk, cfgForce, cfgDryRun) ==
    LET i == result.Instance.Name
        a == ApplyScaling(i, result.Decision, cfgForce, cfgDryRun)
        err == IF a.err # NilErr THEN a.err.msg
               ELSE IF a.update /\ ~updateOk[i] THEN "failed to update machine type"
               ELSE Nil
    IN  IF ~result.Decision.ShouldScale
        THEN [Instance |-> i, Action |-> "no_action", RecommendedType |-> NoName,
              Error |-> Nil, Applied |-> FALSE]
        ELSE [Instance |-> i,
              Action |-> IF IsUpscale(result.Instance.MachineType, result.Decision.RecommendedType)
                         THEN "scale_up" ELSE "scale_down",
              RecommendedType |-> result.Decision.RecommendedType,
              Error |-> IF cfgDryRun THEN Nil ELSE err,
              Applied |-> ~cfgDryRun /\ err = Nil]

\* What either function returns after its loop: an error if hasErrors was set,
\* which happens exactly where an OutputResult got its Error
ReturnOf(rows, message) ==
    [err |-> IF \E k \in 1..Len(rows) : rows[k].Error # Nil THEN message ELSE Nil,
     rows |-> rows]

\* analyzeSpecificInstances: every named instance is analysed and, if needed,
\* scaled; an instance whose analysis fails gets a row with the error
analyzeSpecificInstances(names, inp, updateOk, t, order, cfgForce, cfgDryRun) ==
    ReturnOf([k \in 1..Len(names) |->
                 IF ~inp[names[k]].ok
                 THEN [Instance |-> names[k], Action |-> "error", RecommendedType |-> NoName,
                       Error |-> "failed to analyze instance", Applied |-> FALSE]
                 ELSE OutputResult(AnalyzerAnalyzeInstance(names[k], inp[names[k]], t, order),
                                   updateOk, cfgForce, cfgDryRun)],
             "some instances had errors")

\* analyzeAllInstances after AnalyzeAllInstances returned results: one row
\* for each result, scaled if needed
analyzeAllInstances(results, updateOk, cfgForce, cfgDryRun) ==
    ReturnOf([k \in 1..Len(results.Results) |->
                 OutputResult(results.Results[k], updateOk, cfgForce, cfgDryRun)],
             "some instances had errors during scaling")

-----------------------------------------------------------------------------
(* State shapes *)

NoDecision ==
    [ShouldScale |-> FALSE, CurrentType |-> NoName, RecommendedType |-> NoName,
     Reason |-> "", DowntimeExpected |-> FALSE, DowntimeReason |-> NoReason,
     EstimatedSavings |-> 0, Metrics |-> EmptySummary]

\* MetricsReporter.RecordError
RecordError(rec, t) == [rec EXCEPT !.errors[t] = @ + 1]

NoEngIn ==
    [cfg |-> DefaultConfig,
     instance |-> [Name |-> "", MachineType |-> NoName, Edition |-> "",
                   LastScaledTime |-> ZeroTime],
     data |-> MkData(0, 0, 0), at |-> 0]

NoEngOut == [done |-> FALSE, summary |-> EmptySummary, decision |-> NoDecision, err |-> Nil]

NoCatOut ==
    [op |-> "none", order |-> "", order2 |-> "", res |-> NameErr("not called"),
     mt |-> Failed("not called"), back |-> NameErr("not called")]

\* No service answers and no analysis results
NoProjIn ==
    [answers |-> [i \in Instances |-> [ok |-> FALSE, m |-> 1, lookup |-> FALSE]],
     results |-> << >>,
     named |-> << >>,
     total |-> 0,
     updateOk |-> [i \in Instances |-> FALSE]]

NoProjOut ==
    [op |-> "none", order |-> "", listed |-> FALSE, err |-> Nil,
     result |-> [Results |-> << >>, TotalInstances |-> 0, AnalyzedInstances |-> 0],
     plan |-> << >>,
     cli |-> [err |-> Nil, rows |-> << >>]]

InitialRemote ==
    [i \in Instances |->
        IF i = "a"
        THEN [tier |-> RegName("db-n1-standard-2"), edition |-> "ENTERPRISE_PLUS",
              lastOp |-> ZeroTime]
        ELSE [tier |-> RegName("db-n1-standard-1"), edition |-> "ENTERPRISE",
              lastOp |-> ZeroTime]]

\* The daemon before Start is called; startPc, set beside it, says whether
\* NewDaemon has returned the daemon
DaemonInit ==
    /\ now = 0
    /\ remote = InitialRemote
    /\ loopPc = "none"
    /\ httpPc = "none"
    /\ serverPc = "none"
    /\ ctxCancelled = FALSE
    /\ signalled = FALSE
    /\ crashed = FALSE
    /\ tickPending = FALSE
    /\ ticksFired = 0
    /\ cyclePc = "idle"
    /\ cyclesInFlight = 0
    /\ applyInFlight = 0
    /\ scalable = << >>
    /\ applyIdx = 0
    /\ applyLog = << >>
    /\ lastErr = NilErr
    /\ successCount = 0
    /\ cycleRet = [how |-> "none", ret |-> NoReturn, emphasis |-> FALSE]
    /\ panics = 0
    /\ cycleTriggers = << >>
    /\ recorded = [durations |-> 0, completions |-> 0,
                   errors |-> [t \in {"panic", "analysis_error", "scaling_failed"} |-> 0],
                   counts |-> << 0, 0, 0 >>]
    /\ lastApply = [inst |-> "", decision |-> NoDecision, err |-> NilErr, update |-> FALSE,
                    source |-> "none"]
    /\ updates = [i \in Instances |->
                     [issued |-> FALSE, at |-> 0, prevOp |-> ZeroTime, up |-> FALSE,
                      source |-> "none", decision |-> NoDecision]]
    /\ directCalls = 0

Init ==
    /\ dryRun \in BOOLEAN
    /\ force \in BOOLEAN
    /\ DaemonInit
    /\ startPc = "created"
    /\ engIn = NoEngIn
    /\ engOut = NoEngOut
    /\ catIn = NoName
    /\ catOut = NoCatOut
    /\ projIn = NoProjIn
    /\ projOut = NoProjOut
    /\ pctIn = [values |-> << >>, percentile |-> 0]
    /\ pctOut = [done |-> FALSE, value |-> 0]
    /\ newIn = NoNewIn
    /\ newOut = [done |-> FALSE, daemon |-> FALSE, err |-> NoDaemonError]

configVars == << dryRun, force >>

\* The arguments and results of the functions that are called on their own
callVars == << engIn, engOut, catIn, catOut, projIn, projOut,
       pctIn, pctOut,
       newIn, newOut >>

lifecycleVars == << startPc, httpPc, serverPc, ctxCancelled, signalled, crashed >>

tickerVars == << tickPending, ticksFired >>

applyVars == << scalable, applyIdx, applyLog, lastErr, successCount >>

remoteVars == << remote, lastApply, updates, directCalls >>

\* The daemon, the clock and the service: everything but callVars
daemonVars ==
    << configVars, now, lifecycleVars, loopPc, tickerVars, cyclePc, cyclesInFlight,
       applyInFlight, applyVars, cycleRet, panics, cycleTriggers, recorded, remoteVars >>

-----------------------------------------------------------------------------
(* Daemon.Start, Daemon.Stop, the signal handler and the HTTP side-channel *)

\* Daemon.Start up to its wait for the shutdown signal: both goroutines are
\* spawned (validateConfig admits only ports above 0, so the HTTP one always is)
StartDaemon ==
    /\ ~crashed
    /\ startPc = "created"
    /\ startPc' = "waitSignal"
    /\ httpPc' = "ready"
    /\ loopPc' = "ready"
    /\ UNCHANGED << configVars, callVars, now, serverPc, ctxCancelled, signalled,
                    crashed, tickerVars, cyclePc, cyclesInFlight, applyInFlight,
                    applyVars, cycleRet, panics, cycleTriggers, recorded, remoteVars >>

\* osSignalHandler.handleSignals: a signal arrives and the channel is closed
Signal ==
    /\ ~crashed
    /\ startPc = "waitSignal"
    /\ ~signalled
    /\ signalled' = TRUE
    /\ UNCHANGED << configVars, callVars, now, startPc, loopPc, httpPc, serverPc,
                    ctxCancelled, crashed, tickerVars, cyclePc, cyclesInFlight,
                    applyInFlight, applyVars, cycleRet, panics, cycleTriggers, recorded,
                    remoteVars >>

\* Daemon.Stop called on the running daemon by its owner: the context is
\* cancelled; Start goes on waiting for the shutdown channel
Stop ==
    /\ ~crashed
    /\ startPc = "waitSignal"
    /\ ~ctxCancelled
    /\ ctxCancelled' = TRUE
    /\ UNCHANGED << configVars, callVars, now, startPc, loopPc, httpPc, serverPc, signalled,
                    crashed, tickerVars, cyclePc, cyclesInFlight, applyInFlight,
                    applyVars, cycleRet, panics, cycleTriggers, recorded, remoteVars >>

\* Daemon.Start receives from the shutdown channel and calls Daemon.Stop
StartStop ==
    /\ ~crashed
    /\ startPc = "waitSignal"
    /\ signalled
    /\ ctxCancelled' = TRUE
    /\ startPc' = "waitGroup"
    /\ UNCHANGED << configVars, callVars, now, loopPc, httpPc, serverPc, signalled,
                    crashed, tickerVars, cyclePc, cyclesInFlight, applyInFlight,
                    applyVars, cycleRet, panics, cycleTriggers, recorded, remoteVars >>

\* A Start whose wait group holds the loop goroutine only
StartReturnAfterLoopOnly ==
    /\ ~crashed
    /\ startPc = "waitGroup"
    /\ loopPc = "done"
    /\ startPc' = "returned"
    /\ UNCHANGED << configVars, callVars, now, loopPc, httpPc, serverPc,
                    ctxCancelled, signalled, crashed, tickerVars, cyclePc,
                    cyclesInFlight, applyInFlight, applyVars, cycleRet, panics,
                    cycleTriggers, recorded, remoteVars >>

\* Daemon.Start: d.wg.Wait() returns and Start returns nil
StartReturn ==
    /\ ~crashed
    /\ startPc = "waitGroup"
    /\ loopPc = "done"
    /\ httpPc = "done"
    /\ startPc' = "returned"
    /\ UNCHANGED << configVars, callVars, now, loopPc, httpPc, serverPc,
                    ctxCancelled, signalled, crashed, tickerVars, cyclePc,
                    cyclesInFlight, applyInFlight, applyVars, cycleRet, panics,
                    cycleTriggers, recorded, remoteVars >>

\* startHTTPServer: spawns the goroutine that will call HTTPServer.Start and
\* goes on to wait for the context
HttpSpawn ==
    /\ ~crashed
    /\ httpPc = "ready"
    /\ httpPc' = "waitCtx"
    /\ serverPc' = "ready"
    /\ UNCHANGED << configVars, callVars, now, startPc, loopPc, ctxCancelled,
                    signalled, crashed, tickerVars, cyclePc, cyclesInFlight,
                    applyInFlight, applyVars, cycleRet, panics, cycleTriggers, recorded,
                    remoteVars >>

\* HTTPServer.Start: assigns s.server and listens, or fails to listen
ServerStart ==
    /\ ~crashed
    /\ serverPc = "ready"
    /\ serverPc' \in {"serving", "failed"}
    /\ UNCHANGED << configVars, callVars, now, startPc, loopPc, httpPc,
                    ctxCancelled, signalled, crashed, tickerVars, cyclePc,
                    cyclesInFlight, applyInFlight, applyVars, cycleRet, panics,
                    cycleTriggers, recorded, remoteVars >>

\* startHTTPServer: the context is done and HTTPServer.Shutdown is called.
\* While s.server is still nil the call dereferences nil and the panic,
\* recovered nowhere, ends the process.
HttpShutdown ==
    /\ ~crashed
    /\ httpPc = "waitCtx"
    /\ ctxCancelled
    /\ IF serverPc = "ready"
       THEN /\ crashed' = TRUE
            /\ UNCHANGED << httpPc, serverPc >>
       ELSE /\ httpPc' = "shutdown"
            /\ serverPc' = IF serverPc = "serving" THEN "closed" ELSE serverPc
            /\ UNCHANGED crashed
    /\ UNCHANGED << configVars, callVars, now, startPc, loopPc, ctxCancelled,
                    signalled, tickerVars, cyclePc, cyclesInFlight, applyInFlight,
                    applyVars, cycleRet, panics, cycleTriggers, recorded, remoteVars >>

\* HTTPServer.Shutdown returns, at the latest when its 10 second context
\* expires, and the goroutine leaves the wait group
HttpShutdownReturn ==
    /\ ~crashed
    /\ httpPc = "shutdown"
    /\ httpPc' = "done"
    /\ UNCHANGED << configVars, callVars, now, startPc, loopPc, serverPc,
                    ctxCancelled, signalled, crashed, tickerVars, cyclePc,
                    cyclesInFlight, applyInFlight, applyVars, cycleRet, panics,
                    cycleTriggers, recorded, remoteVars >>

\* Time passes
Advance ==
    /\ ~crashed
    /\ startPc \in {"waitSignal", "waitGroup"}
    /\ \E d \in ClockSteps :
          /\ now + d <= MaxClock
          /\ now' = now + d
    /\ UNCHANGED << configVars, callVars, lifecycleVars, loopPc, tickerVars,
                    cyclePc, cyclesInFlight, applyInFlight, applyVars, cycleRet, panics,
                    cycleTriggers, recorded, remoteVars >>

-----------------------------------------------------------------------------
(* autoscalingLoop, runAutoscalingCycle and autoscalingRunner.RunCycle *)

\* A loop whose timer case is taken while a cycle is still running
LoopAtSelectOrBusy == loopPc \in {"select", "inCycle"}

\* The loop goroutine is blocked in its select and can take a case
LoopAtSelect == loopPc = "select"

\* A loop that returns when a cycle reports an error
LoopExitOnError(ret) == IF ret = NoReturn THEN "select" ELSE "done"

\* A loop that runs the cycle again at once when it reports an error
LoopRetryOnError(ret) == IF ret = NoReturn THEN "select" ELSE "ready"

\* Where the loop goes once runAutoscalingCycle has returned: the error is
\* logged and the loop goes back to its select
LoopAfterCycle(ret) == "select"

\* Recording placed at the end of RunCycle instead of in a deferred function:
\* a panicking cycle records its error and nothing else
RecordAtEndOnly(rec, panicked) ==
    IF panicked THEN RecordError(rec, "panic")
    ELSE [rec EXCEPT !.durations = @ + 1, !.completions = @ + 1]

\* RunCycle's deferred function: duration and completion are recorded, and a
\* panic, if there is one, is recovered and recorded
DeferredRecord(rec, panicked) ==
    LET done == [rec EXCEPT !.durations = @ + 1, !.completions = @ + 1]
    IN  IF panicked THEN RecordError(done, "panic") ELSE done

\* The loop calls runAutoscalingCycle: RunCycle is entered and starts its
\* project-wide analysis
BeginCycle(trigger) ==
    /\ loopPc' = "inCycle"
    /\ cyclePc' = "analyzing"
    /\ cyclesInFlight' = cyclesInFlight + 1
    /\ cycleTriggers' = Append(cycleTriggers, trigger)
    /\ scalable' = << >>
    /\ applyIdx' = 0
    /\ applyLog' = << >>
    /\ lastErr' = NilErr
    /\ successCount' = 0

\* RunCycle returns ret (after its deferred function ran on rec);
\* runAutoscalingCycle logs an error, with the non-recoverable line unless
\* IsRecoverable holds of it, and returns to the loop
EndCycle(how, ret, rec) ==
    /\ recorded' = DeferredRecord(rec, how = "panic")
    /\ cycleRet' = [how |-> how, ret |-> ret, emphasis |-> ret # NoReturn /\ ~IsRecoverable(ret)]
    /\ panics' = IF how = "panic" THEN panics + 1 ELSE panics
    /\ cyclePc' = "idle"
    /\ cyclesInFlight' = cyclesInFlight - 1
    /\ loopPc' = LoopAfterCycle(ret)
    /\ scalable' = << >>

\* autoscalingLoop: the ticker is created and the first cycle is run at once
LoopStart ==
    /\ ~crashed
    /\ loopPc = "ready"
    /\ BeginCycle("immediate")
    /\ UNCHANGED << configVars, callVars, now, lifecycleVars, tickerVars,
                    applyInFlight, cycleRet, panics, recorded, remoteVars >>

\* The ticker fires; a tick that finds the channel full is dropped
Tick ==
    /\ ~crashed
    /\ loopPc \in {"select", "inCycle"}
    /\ ticksFired < MaxTicks
    /\ ticksFired' = ticksFired + 1
    /\ tickPending' = TRUE
    /\ UNCHANGED << configVars, callVars, now, lifecycleVars, loopPc, cyclePc,
                    cyclesInFlight, applyInFlight, applyVars, cycleRet, panics,
                    cycleTriggers, recorded, remoteVars >>

\* autoscalingLoop: case <-ticker.C
LoopTick ==
    /\ ~crashed
    /\ LoopAtSelect
    /\ tickPending
    /\ tickPending' = FALSE
    /\ BeginCycle("tick")
    /\ UNCHANGED << configVars, callVars, now, lifecycleVars, ticksFired,
                    applyInFlight, cycleRet, panics, recorded, remoteVars >>

\* autoscalingLoop: case <-d.ctx.Done()
LoopCancel ==
    /\ ~crashed
    /\ LoopAtSelect
    /\ ctxCancelled
    /\ loopPc' = "done"
    /\ UNCHANGED << configVars, callVars, now, lifecycleVars, tickerVars, cyclePc,
                    cyclesInFlight, applyInFlight, applyVars, cycleRet, panics,
                    cycleTriggers, recorded, remoteVars >>

\* RunCycle once the analysis has returned res, of which sc are scalable: the
\* instance counts are recorded, a dry run returns nil at once and otherwise
\* applyScalingDecisions is entered
AfterAnalysis(res, sc) ==
    LET rec == [recorded EXCEPT !.counts = << res.TotalInstances,
                                             res.AnalyzedInstances, Len(sc) >>]
    IN  IF dryRun
        THEN /\ EndCycle("dry-run", NoReturn, rec)
             /\ UNCHANGED << applyIdx, applyLog, lastErr, successCount >>
        ELSE /\ cyclePc' = "apply"
             /\ scalable' = sc
             /\ applyIdx' = 1
             /\ recorded' = rec
             /\ UNCHANGED << loopPc, cyclesInFlight, cycleRet, panics, applyLog,
                             lastErr, successCount >>

Analysed(res) == AfterAnalysis(res, GetScalableInstances(res))

\* RunCycle from the analysis to the entry of applyScalingDecisions.  The
\* listing fails, or the analysis panics, or it yields results.
CycleAnalyze(inputs, totals) ==
    /\ ~crashed
    /\ cyclePc = "analyzing"
    /\ \/ /\ EndCycle("analysis_error",
                      WrapError("analyze_instances", Err("failed to list instances", "")),
                      RecordError(recorded, "analysis_error"))
          /\ UNCHANGED << applyIdx, applyLog, lastErr, successCount >>
       \/ /\ EndCycle("panic", NoReturn, recorded)
          /\ UNCHANGED << applyIdx, applyLog, lastErr, successCount >>
       \/ \E inp \in [Instances -> inputs], order \in MapOrders, totalCount \in totals :
             Analysed(AnalyzeAllInstances(inp, now, order, totalCount))
    /\ UNCHANGED << configVars, callVars, now, lifecycleVars, tickerVars,
                    applyInFlight, cycleTriggers, remoteVars >>

\* A loop that breaks at the first failed ApplyScaling
BreakOnError(idx, err, n) == IF err # NilErr THEN n + 1 ELSE idx + 1

\* applyScalingDecisions: the loop index after the iteration at idx
NextApplyIdx(idx, err, n) == idx + 1

\* applyScalingDecisions: bookkeeping of one iteration that ended with err
ApplyOutcome(i, err) ==
    /\ applyLog' = Append(applyLog, [inst |-> i, err |-> err])
    /\ applyIdx' = NextApplyIdx(applyIdx, err, Len(scalable))
    /\ IF err # NilErr
       THEN /\ lastErr' = err
            /\ recorded' = RecordError(recorded, "scaling_failed")
            /\ UNCHANGED successCount
       ELSE /\ successCount' = successCount + 1
            /\ UNCHANGED << lastErr, recorded >>

\* The record of an UpdateMachineType invocation made now
IssueUpdate(i, decision, source) ==
    [issued |-> TRUE, at |-> now, prevOp |-> remote[i].lastOp,
     up |-> IsUpscale(decision.CurrentType, decision.RecommendedType),
     source |-> source, decision |-> decision]

\* applyScalingDecisions: one iteration, up to the return of ApplyScaling or
\* to its call of UpdateMachineType
ApplyStep ==
    /\ ~crashed
    /\ cyclePc = "apply"
    /\ applyIdx <= Len(scalable)
    /\ LET r == scalable[applyIdx]
           i == r.Instance.Name
           a == ApplyScaling(i, r.Decision, force, dryRun)
       IN  IF a.update
           THEN /\ cyclePc' = "updating"
                /\ applyInFlight' = applyInFlight + 1
                /\ updates' = [updates EXCEPT ![i] = IssueUpdate(i, r.Decision, "daemon")]
                /\ lastApply' = [inst |-> i, decision |-> r.Decision,
                                 err |-> Err("in flight", i), update |-> TRUE,
                                 source |-> "daemon"]
                /\ UNCHANGED << applyIdx, applyLog, lastErr, successCount, recorded >>
           ELSE /\ ApplyOutcome(i, a.err)
                /\ lastApply' = [inst |-> i, decision |-> r.Decision, err |-> a.err,
                                 update |-> FALSE, source |-> "daemon"]
                /\ UNCHANGED << cyclePc, applyInFlight, updates >>
    /\ UNCHANGED << configVars, callVars, now, lifecycleVars, loopPc, tickerVars,
                    cyclesInFlight, scalable, cycleRet, panics, cycleTriggers,
                    remote, directCalls >>

\* The service's record after a finished machine-type update issued at t
Updated(i, to, t) == [remote EXCEPT ![i].tier = to, ![i].lastOp = t]

\* Client.UpdateMachineType returns: the operation completed, or the update
\* or the wait for it failed; ApplyScaling returns to applyScalingDecisions
UpdateDone ==
    /\ ~crashed
    /\ cyclePc = "updating"
    /\ LET r == scalable[applyIdx]
           i == r.Instance.Name
       IN  \E ok \in BOOLEAN :
              LET err == IF ok THEN NilErr ELSE Err("failed to update machine type", i)
              IN  /\ remote' = IF ok THEN Updated(i, r.Decision.RecommendedType, updates[i].at)
                               ELSE remote
                  /\ ApplyOutcome(i, err)
                  /\ lastApply' = [inst |-> i, decision |-> r.Decision, err |-> err,
                                   update |-> TRUE, source |-> "daemon"]
    /\ cyclePc' = "apply"
    /\ applyInFlight' = applyInFlight - 1
    /\ UNCHANGED << configVars, callVars, now, lifecycleVars, loopPc, tickerVars,
                    cyclesInFlight, scalable, cycleRet, panics, cycleTriggers,
                    updates, directCalls >>

\* applyScalingDecisions returns: nil, or the last error wrapped
CycleReturn ==
    /\ ~crashed
    /\ cyclePc = "apply"
    /\ applyIdx > Len(scalable)
    /\ EndCycle(IF lastErr = NilErr THEN "ok" ELSE "apply_error",
                WrapError("apply_scaling", lastErr), recorded)
    /\ UNCHANGED << configVars, callVars, now, lifecycleVars, tickerVars,
                    applyInFlight, applyIdx, applyLog, lastErr, successCount,
                    cycleTriggers, remoteVars >>

-----------------------------------------------------------------------------
(* Analyzer.ApplyScaling called outside the daemon (the one-shot commands) *)

\* Decisions a caller may hand to ApplyScaling for instance i
DecisionsTo(cur, larger) ==
    {[NoDecision EXCEPT !.ShouldScale = s, !.CurrentType = cur,
                        !.RecommendedType = t, !.DowntimeExpected = d] :
        s \in BOOLEAN, t \in {cur} \cup (IF larger.err = "" THEN {larger.name} ELSE {}),
        d \in BOOLEAN}

DirectDecisions(i) ==
    DecisionsTo(remote[i].tier, GetNextLargerMachineType(remote[i].tier, "ascending"))

\* A one-shot command (analyze --apply, scale) run before the daemon is
\* started calls ApplyScaling with a decision for one instance
DirectApply ==
    /\ startPc = "created"
    /\ directCalls < MaxDirectCalls
    /\ directCalls' = directCalls + 1
    /\ \E i \in Instances :
         \E d \in DirectDecisions(i), ok \in BOOLEAN :
            LET a == ApplyScaling(i, d, force, dryRun)
                err == IF a.update /\ ~ok THEN Err("failed to update machine type", i)
                       ELSE a.err
            IN  /\ lastApply' = [inst |-> i, decision |-> d, err |-> err,
                                 update |-> a.update, source |-> "direct"]
                /\ updates' = IF a.update
                              THEN [updates EXCEPT ![i] = IssueUpdate(i, d, "direct")]
                              ELSE updates
                /\ remote' = IF a.update /\ ok THEN Updated(i, d.RecommendedType, now)
                             ELSE remote
    /\ UNCHANGED << configVars, callVars, now, lifecycleVars, loopPc, tickerVars,
                    cyclePc, cyclesInFlight, applyInFlight, applyVars, cycleRet, panics,
                    cycleTriggers, recorded >>

-----------------------------------------------------------------------------

\* The daemon from Start to its return, with the ticker, the signal and the
\* HTTP side-channel
Next ==
    \/ StartDaemon
    \/ Signal
    \/ Stop
    \/ StartStop
    \/ StartReturn
    \/ HttpSpawn
    \/ ServerStart
    \/ HttpShutdown
    \/ HttpShutdownReturn
    \/ LoopStart
    \/ Tick
    \/ LoopTick
    \/ LoopCancel
    \/ CycleAnalyze(OutcomeInputs, {Len(InstanceList)})
    \/ ApplyStep
    \/ UpdateDone
    \/ CycleReturn

Spec == Init /\ [][Next]_vars

\* The running daemon's cycles over every answer of the services, with time
\* passing and one-shot ApplyScaling calls beside it
CycleSpec ==
    /\ Init
    /\ [][\/ StartDaemon
          \/ LoopStart
          \/ Tick
          \/ LoopTick
          \/ CycleAnalyze(AnalysisInputs, 0..Len(InstanceList) + 1)
          \/ ApplyStep
          \/ UpdateDone
          \/ CycleReturn
          \/ Advance]_vars

\* ApplyScaling called by the one-shot commands and by the daemon's cycles
ApplySpec ==
    /\ Init
    /\ [][\/ DirectApply
          \/ StartDaemon
          \/ LoopStart
          \/ Tick
          \/ LoopTick
          \/ CycleAnalyze(OutcomeInputs, {Len(InstanceList)})
          \/ ApplyStep
          \/ UpdateDone
          \/ CycleReturn]_vars

\* The daemon under the scheduling the Go runtime guarantees: a goroutine
\* that can take a step takes it eventually.  The signal, the ticker and the
\* owner's call of Stop are the environment's and carry no fairness.
FairSpec ==
    /\ Init
    /\ [][Next]_vars
    /\ WF_vars(StartDaemon)
    /\ WF_vars(StartStop)
    /\ WF_vars(StartReturn)
    /\ WF_vars(HttpSpawn)
    /\ WF_vars(ServerStart)
    /\ WF_vars(HttpShutdown)
    /\ WF_vars(HttpShutdownReturn)
    /\ WF_vars(LoopStart)
    /\ WF_vars(LoopTick)
    /\ WF_vars(LoopCancel)
    /\ WF_vars(CycleAnalyze(OutcomeInputs, {Len(InstanceList)}))
    /\ WF_vars(ApplyStep)
    /\ WF_vars(UpdateDone)
    /\ WF_vars(CycleReturn)

-----------------------------------------------------------------------------
(* The rules engine on its own: one evaluation of Engine.AnalyzeInstance on a
   summary computed by CalculateMetricsSummary *)

\* The instant of the evaluation
EngineNow == 4 * Hour

\* The evaluations made: the default thresholds and crossed ones; series of
\* 0, 1, 9, 10 and 11 samples, idle or busy in CPU and in memory; instances
\* on registered tiers, a custom one, a performance-optimized one and an
\* unknown one, of the two known editions and a foreign one, never scaled
\* or last scaled before the evaluation by 10 minutes, 20 and 30 seconds
\* more, 29 minutes 59 seconds, 30 minutes, 3 hours less a second, 3 hours,
\* 4 hours.
EngineInit ==
    /\ dryRun = FALSE
    /\ force = FALSE
    /\ DaemonInit
    /\ startPc = "created"
    /\ \E c \in {DefaultConfig, [ScaleUpThreshold |-> 0, ScaleDownThreshold |-> 100]},
          n \in {0, 1, 9, 10, 11}, cpu \in {30, 95}, mem \in {30, 95},
          mt \in {RegName("db-n1-standard-2"), RegName("db-f1-micro"),
                  RegName("db-n1-standard-96"), CustomName(4, 16384), PerfName("N-4"),
                  RegName("db-unknown")},
          e \in {EditionEnterprise, EditionEnterprisePlus, "STANDARD"},
          l \in {ZeroTime} \cup {EngineNow - d :
                    d \in {10 * Minute, 10 * Minute + 20, 10 * Minute + 30, 30 * Minute - 1,
                           30 * Minute, 3 * Hour - 1, 3 * Hour, 4 * Hour}} :
          engIn = [cfg |-> c,
                   instance |-> [Name |-> "a", MachineType |-> mt, Edition |-> e,
                                 LastScaledTime |-> l],
                   data |-> MkData(n, cpu, mem), at |-> EngineNow]
    /\ engOut = NoEngOut
    /\ catIn = NoName
    /\ catOut = NoCatOut
    /\ projIn = NoProjIn
    /\ projOut = NoProjOut
    /\ pctIn = [values |-> << >>, percentile |-> 0]
    /\ pctOut = [done |-> FALSE, value |-> 0]
    /\ newIn = NoNewIn
    /\ newOut = [done |-> FALSE, daemon |-> FALSE, err |-> NoDaemonError]

EngineOutput(summary, analysis) ==
    [done |-> TRUE, summary |-> summary, decision |-> analysis.decision, err |-> analysis.err]

\* The summary of the fetched series is computed and handed to the engine
EngineAnalyze ==
    /\ ~engOut.done
    /\ \E order \in MapOrders :
          engOut' = EngineOutput(CalculateMetricsSummary(engIn.data),
                                 EngineAnalyzeInstance(engIn.cfg, engIn.instance,
                                                       CalculateMetricsSummary(engIn.data),
                                                       engIn.at, order))
    /\ UNCHANGED << daemonVars, engIn, catIn, catOut, projIn, projOut, pctIn, pctOut, newIn, newOut >>

EngineSpec ==
    /\ EngineInit
    /\ [][EngineAnalyze]_vars

-----------------------------------------------------------------------------
(* The machine-type catalog on its own: one call of GetMachineType, of
   GetNextLargerMachineType or of GetNextSmallerMachineType, or the two
   latter in a row, on one tier identifier *)

RegistryNames(registry) == {registry[k].Name : k \in 1..Len(registry)}

\* The identifiers tried: every registered tier, every tier of the
\* performance-optimized sequence, one outside it, an unknown one, and
\* custom tiers with the CPU counts cpus and, for each c of them, memory
\* sizes in MB around both ends of the band of 0.9 to 6.5 GB per vCPU and
\* around 4 GB per vCPU
CatalogInit ==
    /\ dryRun = FALSE
    /\ force = FALSE
    /\ DaemonInit
    /\ startPc = "created"
    /\ engIn = NoEngIn
    /\ engOut = NoEngOut
    /\ LET cpus == {0, 1, 2, 3, 4, 5, 8, 96, 97}
           mems(c) == {MinMemoryMB(c), MinMemoryMB(c) + 1,
                       ((MinMemoryMB(c) + 256) \div 256) * 256, c * 1024, c * 4096,
                       c * 4096 + 1, c * 4096 + 256, MaxMemoryMB(c) - 256, MaxMemoryMB(c),
                       MaxMemoryMB(c) + 1}
       IN  catIn \in RegistryNames(MachineTypeRegistry)
                     \cup {CustomName(c, m) : c \in cpus, m \in UNION {mems(k) : k \in cpus}}
                     \cup {PerfName(PerfSequence[k]) : k \in 1..Len(PerfSequence)}
                     \cup {PerfName("N-32"), RegName("db-unknown")}
    /\ catOut = NoCatOut
    /\ projIn = NoProjIn
    /\ projOut = NoProjOut
    /\ pctIn = [values |-> << >>, percentile |-> 0]
    /\ pctOut = [done |-> FALSE, value |-> 0]
    /\ newIn = NoNewIn
    /\ newOut = [done |-> FALSE, daemon |-> FALSE, err |-> NoDaemonError]

\* The result of a step in one direction, with what GetMachineType makes of
\* the identifier it returned
StepOutput(op, order, res) ==
    [NoCatOut EXCEPT !.op = op, !.order = order, !.res = res,
                     !.mt = IF res.err = "" THEN GetMachineType(res.name)
                            ELSE Failed("not called")]

\* The result of a step down followed, when it succeeded, by a step up
RoundTripOutput(order, order2, res) ==
    [NoCatOut EXCEPT !.op = "roundtrip", !.order = order, !.order2 = order2, !.res = res,
                     !.back = IF res.err = "" THEN GetNextLargerMachineType(res.name, order2)
                              ELSE NameErr("not called")]

CatalogResolve ==
    /\ catOut.op = "none"
    /\ catOut' = [NoCatOut EXCEPT !.op = "resolve", !.mt = GetMachineType(catIn)]
    /\ UNCHANGED << daemonVars, engIn, engOut, catIn, projIn, projOut, pctIn, pctOut, newIn, newOut >>

CatalogLarger ==
    /\ catOut.op = "none"
    /\ \E order \in MapOrders :
          catOut' = StepOutput("larger", order, GetNextLargerMachineType(catIn, order))
    /\ UNCHANGED << daemonVars, engIn, engOut, catIn, projIn, projOut, pctIn, pctOut, newIn, newOut >>

CatalogSmaller ==
    /\ catOut.op = "none"
    /\ \E order \in MapOrders :
          catOut' = StepOutput("smaller", order, GetNextSmallerMachineType(catIn, order))
    /\ UNCHANGED << daemonVars, engIn, engOut, catIn, projIn, projOut, pctIn, pctOut, newIn, newOut >>

CatalogRoundTrip ==
    /\ catOut.op = "none"
    /\ \E order \in MapOrders, order2 \in MapOrders :
          catOut' = RoundTripOutput(order, order2, GetNextSmallerMachineType(catIn, order))
    /\ UNCHANGED << daemonVars, engIn, engOut, catIn, projIn, projOut, pctIn, pctOut, newIn, newOut >>

CatalogSpec ==
    /\ CatalogInit
    /\ [][\/ CatalogResolve
          \/ CatalogLarger
          \/ CatalogSmaller
          \/ CatalogRoundTrip]_vars

-----------------------------------------------------------------------------
(* The daemon from its construction on: NewDaemon is called once with a
   configuration, and the daemon it returns, if any, is started and runs as
   under Spec *)

\* The configurations tried: a nil one, and project IDs, intervals (in
\* seconds) and ports on both sides of what validateConfig accepts, with
\* the analyzer's construction succeeding or failing
ConstructInit ==
    /\ dryRun \in BOOLEAN
    /\ force = FALSE
    /\ DaemonInit
    /\ startPc = "unbuilt"
    /\ engIn = NoEngIn
    /\ engOut = NoEngOut
    /\ catIn = NoName
    /\ catOut = NoCatOut
    /\ projIn = NoProjIn
    /\ projOut = NoProjOut
    /\ pctIn = [values |-> << >>, percentile |-> 0]
    /\ pctOut = [done |-> FALSE, value |-> 0]
    /\ \E isNil \in BOOLEAN, id \in {"", "p"}, interval \in {0 - 5 * Minute, 0, 1, 5 * Minute},
          port \in {0 - 1, 0, 1, 8080, 65535, 65536}, ok \in BOOLEAN :
          /\ isNil => (id = "" /\ ~dryRun)
          /\ newIn = [cfg |-> [nil |-> isNil, ProjectID |-> id, DryRun |-> dryRun],
                      interval |-> interval, httpPort |-> port, analyzerOk |-> ok]
    /\ newOut = [done |-> FALSE, daemon |-> FALSE, err |-> NoDaemonError]

\* daemon.NewDaemon
NewDaemon ==
    /\ ~newOut.done
    /\ newOut' =
          IF validateConfig(newIn.cfg, newIn.interval, newIn.httpPort) # NoDaemonError
          THEN [done |-> TRUE, daemon |-> FALSE,
                err |-> validateConfig(newIn.cfg, newIn.interval, newIn.httpPort)]
          ELSE IF ~newIn.analyzerOk
          THEN [done |-> TRUE, daemon |-> FALSE,
                err |-> NewDaemonError("create_analyzer", "startup", "analyzer not created")]
          ELSE [done |-> TRUE, daemon |-> TRUE, err |-> NoDaemonError]
    /\ startPc' = IF newOut'.daemon THEN "created" ELSE startPc
    /\ UNCHANGED << configVars, now, httpPc, serverPc, ctxCancelled, signalled, crashed,
                    loopPc, tickerVars, cyclePc, cyclesInFlight, applyInFlight, applyVars,
                    cycleRet, panics, cycleTriggers, recorded, remoteVars, engIn, engOut,
                    catIn, catOut, projIn, projOut, pctIn, pctOut, newIn >>

ConstructSpec == ConstructInit /\ [][NewDaemon \/ Next]_vars

-----------------------------------------------------------------------------
(* calculatePercentile on its own: one call on an array of up to four samples,
   in any order and with repetitions, for the percentiles 0, 50, 95 and 100 *)

PercentileInit ==
    /\ dryRun = FALSE
    /\ force = FALSE
    /\ DaemonInit
    /\ startPc = "created"
    /\ engIn = NoEngIn
    /\ engOut = NoEngOut
    /\ catIn = NoName
    /\ catOut = NoCatOut
    /\ projIn = NoProjIn
    /\ projOut = NoProjOut
    /\ \E n \in 0..4, p \in {0, 50, 95, 100} :
          \E v \in [1..n -> {0, 1, 7, 100}] : pctIn = [values |-> v, percentile |-> p]
    /\ pctOut = [done |-> FALSE, value |-> 0]
    /\ newIn = NoNewIn
    /\ newOut = [done |-> FALSE, daemon |-> FALSE, err |-> NoDaemonError]

PercentileApply ==
    /\ ~pctOut.done
    /\ pctOut' = [done |-> TRUE, value |-> calculatePercentile(pctIn.values, pctIn.percentile)]
    /\ UNCHANGED << daemonVars, engIn, engOut, catIn, catOut, projIn, projOut, pctIn, newIn, newOut >>

PercentileSpec == PercentileInit /\ [][PercentileApply]_vars

-----------------------------------------------------------------------------
(* ProjectAnalyzer: the project-wide analysis, the scaling plan and the
   one-shot command, each applied once to its input *)

\* The result lists a plan is made from, their instances named in discovery
\* order: every list of up to two results, and the lists of 13 scalable
\* results of which all but one are alike.  The results: a busy instance
\* without and with expected downtime, a warm one likewise, an idle one with
\* large savings, an idle one with small savings, one that needs no scaling.
PlanInputs ==
    LET Res(cpu, scale, larger, downtime, savings) ==
            [Summary |-> [EmptySummary EXCEPT !.DataPoints = 10, !.CPUP95 = cpu * 100,
                                              !.CPUMax = cpu * 100, !.MemoryP95Pct = 40 * 100],
             Decision |-> [ShouldScale |-> scale,
                           CurrentType |-> RegName("db-n1-standard-2"),
                           RecommendedType |-> IF ~scale THEN NoName
                                               ELSE IF larger THEN RegName("db-n1-standard-4")
                                               ELSE RegName("db-n1-standard-1"),
                           Reason |-> "",
                           DowntimeExpected |-> downtime,
                           EstimatedSavings |-> savings]]
        results == << Res(95, TRUE, TRUE, FALSE, 0 - 100 * 8000),
                      Res(95, TRUE, TRUE, TRUE, 0 - 100 * 8000),
                      Res(85, TRUE, TRUE, FALSE, 0 - 100 * 8000),
                      Res(85, TRUE, TRUE, TRUE, 0 - 100 * 8000),
                      Res(30, TRUE, FALSE, TRUE, 101 * 8000),
                      Res(30, TRUE, FALSE, FALSE, 50 * 8000),
                      Res(60, FALSE, FALSE, FALSE, 0) >>
        names == << "i01", "i02", "i03", "i04", "i05", "i06", "i07", "i08", "i09", "i10",
                    "i11", "i12", "i13" >>
        Named(kinds) == [k \in 1..Len(kinds) |->
                            [Instance |-> [Name |-> names[k]],
                             Summary |-> results[kinds[k]].Summary,
                             Decision |-> results[kinds[k]].Decision]]
    IN  {Named(kinds) : kinds \in {<< >>} \cup [1..1 -> 1..7] \cup [1..2 -> 1..7]}
        \cup {Named([k \in 1..13 |-> IF k = odd THEN one ELSE rest]) :
                  odd \in 1..13, one \in 1..2, rest \in 1..2}

ProjectInit ==
    /\ dryRun \in BOOLEAN
    /\ force = FALSE
    /\ DaemonInit
    /\ startPc = "created"
    /\ engIn = NoEngIn
    /\ engOut = NoEngOut
    /\ catIn = NoName
    /\ catOut = NoCatOut
    /\ \/ \E inp \in [Instances -> AnalysisInputs], upd \in [Instances -> BOOLEAN],
             names \in {<< >>, << "a" >>, << "b" >>, << "b", "a" >>},
             totalCount \in 0..Len(InstanceList) + 1 :
             projIn = [NoProjIn EXCEPT !.answers = inp, !.named = names, !.updateOk = upd,
                                       !.total = totalCount]
       \/ \E res \in PlanInputs : dryRun = FALSE /\ projIn = [NoProjIn EXCEPT !.results = res]
    /\ projOut = NoProjOut
    /\ pctIn = [values |-> << >>, percentile |-> 0]
    /\ pctOut = [done |-> FALSE, value |-> 0]
    /\ newIn = NoNewIn
    /\ newOut = [done |-> FALSE, daemon |-> FALSE, err |-> NoDaemonError]

\* AnalyzeAllInstances: one of the two listings fails, or every listed
\* instance is analysed
ProjectAnalyze ==
    /\ projOut.op = "none"
    /\ \/ projOut' = [NoProjOut EXCEPT !.op = "analyze", !.err = "failed to list instances"]
       \/ \E order \in MapOrders :
             projOut' = [NoProjOut EXCEPT !.op = "analyze", !.order = order, !.listed = TRUE,
                                          !.result = AnalyzeAllInstances(projIn.answers, now, order, projIn.total)]
    /\ UNCHANGED << daemonVars, engIn, engOut, catIn, catOut, projIn, pctIn, pctOut, newIn, newOut >>

\* GenerateScalingPlan of a project result
ProjectPlan ==
    /\ projOut.op = "none"
    /\ projOut' = [NoProjOut EXCEPT !.op = "plan",
                                    !.plan = GenerateScalingPlan([Results |-> projIn.results])]
    /\ UNCHANGED << daemonVars, engIn, engOut, catIn, catOut, projIn, pctIn, pctOut, newIn, newOut >>

\* The service's records after the command applied the scalings of rows
AfterCommand(rows) ==
    [i \in Instances |->
        IF \E k \in 1..Len(rows) : rows[k].Instance = i /\ rows[k].Applied
        THEN [remote[i] EXCEPT
                 !.tier = rows[CHOOSE k \in 1..Len(rows) : rows[k].Instance = i].RecommendedType,
                 !.lastOp = now]
        ELSE remote[i]]

\* runAutoscaler with instances named on the command line
RunSpecific ==
    /\ projOut.op = "none"
    /\ Len(projIn.named) > 0
    /\ \E order \in MapOrders :
          projOut' = [NoProjOut EXCEPT
                         !.op = "specific", !.order = order,
                         !.cli = analyzeSpecificInstances(projIn.named, projIn.answers,
                                                          projIn.updateOk, now, order,
                                                          force, dryRun)]
    /\ remote' = AfterCommand(projOut'.cli.rows)
    /\ UNCHANGED << configVars, now, lifecycleVars, loopPc, tickerVars, cyclePc, cyclesInFlight,
                    applyInFlight, applyVars, cycleRet, panics, cycleTriggers, recorded,
                    lastApply, updates, directCalls, engIn, engOut, catIn, catOut, projIn,
                    pctIn, pctOut, newIn, newOut >>

\* runAutoscaler with no instance named: AnalyzeAllInstances fails on a
\* listing, or its results are gone through
RunAll ==
    /\ projOut.op = "none"
    /\ Len(projIn.named) = 0
    /\ \/ projOut' = [NoProjOut EXCEPT !.op = "all", !.err = "failed to list instances",
                                       !.cli = [err |-> "failed to analyze instances",
                                                rows |-> << >>]]
       \/ \E order \in MapOrders :
             LET results == AnalyzeAllInstances(projIn.answers, now, order, projIn.total)
             IN  projOut' = [NoProjOut EXCEPT
                                !.op = "all", !.order = order, !.listed = TRUE,
                                !.result = results,
                                !.cli = analyzeAllInstances(results, projIn.updateOk,
                                                            force, dryRun)]
    /\ remote' = AfterCommand(projOut'.cli.rows)
    /\ UNCHANGED << configVars, now, lifecycleVars, loopPc, tickerVars, cyclePc, cyclesInFlight,
                    applyInFlight, applyVars, cycleRet, panics, cycleTriggers, recorded,
                    lastApply, updates, directCalls, engIn, engOut, catIn, catOut, projIn,
                    pctIn, pctOut, newIn, newOut >>

ProjectSpec ==
    /\ ProjectInit
    /\ [][\/ ProjectAnalyze
          \/ ProjectPlan
          \/ RunSpecific
          \/ RunAll]_vars

-----------------------------------------------------------------------------
(* Properties *)

\* C1: with the dry-run flag set, no daemon cycle and no call of ApplyScaling
\* invokes UpdateMachineType: no update is ever issued, the service's records
\* stay as they were, RunCycle never enters its apply step and ApplyScaling
\* never reports an update.
C1_DryRunNeverUpdates ==
    dryRun =>
        /\ \A i \in Instances : ~updates[i].issued
        /\ remote = InitialRemote
        /\ cyclePc \notin {"apply", "updating"}
        /\ applyInFlight = 0
        /\ ~lastApply.update

\* A dry-run cycle found an instance to scale and returned, and a one-shot
\* ApplyScaling call accepted a valid decision without updating
C1_DryRunCycleAndCall ==
    /\ dryRun
    /\ cycleRet.how = "dry-run"
    /\ recorded.counts[3] > 0
    /\ lastApply.source = "direct"
    /\ lastApply.decision.ShouldScale
    /\ lastApply.decision.CurrentType # lastApply.decision.RecommendedType
    /\ lastApply.err = NilErr

\* C2: UpdateMachineType is invoked by ApplyScaling only for a decision with
\* ShouldScale set, different current and recommended tiers, and downtime
\* either not expected or overridden by force; a call with any other decision
\* returns an error and issues no update.
C2_UpdateOnlyForAdmissibleDecision ==
    LET admissible(d) == /\ d.ShouldScale
                         /\ d.CurrentType # d.RecommendedType
                         /\ (~d.DowntimeExpected \/ force)
    IN  /\ \A i \in Instances : updates[i].issued => admissible(updates[i].decision)
        /\ lastApply.source # "none" =>
              /\ lastApply.update => admissible(lastApply.decision)
              /\ ~admissible(lastApply.decision) =>
                    (lastApply.err # NilErr /\ ~lastApply.update)

\* One instance has been updated and the latest call, for a decision to
\* scale that expects downtime, was rejected
C2_UpdateAndRejection ==
    /\ \E i \in Instances : updates[i].issued
    /\ lastApply.source # "none"
    /\ lastApply.decision.ShouldScale
    /\ lastApply.decision.DowntimeExpected
    /\ ~lastApply.update
    /\ lastApply.err # NilErr

\* C3: without force, the daemon never applies an upscale to an Enterprise
\* Plus instance less than 30 minutes after the instance's previous scaling
\* operation, nor a downscale less than 3 hours after it.
C3_MinimumIntervalKept ==
    ~force =>
        \A i \in Instances :
            (/\ updates[i].issued
             /\ updates[i].source = "daemon"
             /\ remote[i].edition = "ENTERPRISE_PLUS"
             /\ updates[i].prevOp # ZeroTime)
            => updates[i].at - updates[i].prevOp >=
                  (IF updates[i].up THEN 30 * Minute ELSE 3 * Hour)

\* C4: a failed cycle is not fatal: while no shutdown has been requested,
\* after a cycle that returned an error or panicked the loop is at its select
\* or in a later cycle, and a pending tick can start the next cycle.
C4_FailedCycleNotFatal ==
    (cycleRet.how \in {"analysis_error", "apply_error", "panic"} /\ ~ctxCancelled) =>
        /\ loopPc \in {"select", "inCycle"}
        /\ (loopPc = "select" /\ tickPending) => ENABLED LoopTick

\* A tick started a cycle after a cycle that panicked
C4_CycleAfterPanic ==
    /\ cycleRet.how = "panic"
    /\ ~ctxCancelled
    /\ Len(cycleTriggers) = 2
    /\ cycleTriggers[2] = "tick"
    /\ cyclePc = "analyzing"

\* C5: at most one cycle is in flight, and at most one ApplyScaling call,
\* which belongs to that cycle, also while ticks fire during a cycle.
C5_OneCycleInFlight ==
    /\ cyclesInFlight <= 1
    /\ applyInFlight <= cyclesInFlight
    /\ (cyclesInFlight = 1) = (loopPc = "inCycle")

\* A tick fired while a cycle was waiting for an update to complete
C5_TickDuringUpdate ==
    /\ cyclesInFlight = 1
    /\ applyInFlight = 1
    /\ cyclePc = "updating"
    /\ tickPending

\* C6: once the shutdown signal has been delivered to the running daemon,
\* Start eventually returns.
C6_SignalLeadsToReturn == signalled ~> (startPc = "returned")

\* C7: the first cycle is started at once, before any tick; every later
\* cycle is started by a tick, each by a tick of its own, so that a failed
\* cycle is not run again before the next tick.
C7_ImmediateThenTicks ==
    /\ Len(cycleTriggers) >= 1 => cycleTriggers[1] = "immediate"
    /\ \A k \in 2..Len(cycleTriggers) : cycleTriggers[k] = "tick"
    /\ ticksFired >= 1 => Len(cycleTriggers) >= 1
    /\ Len(cycleTriggers) + (IF tickPending THEN 1 ELSE 0) <= 1 + ticksFired

\* The first cycle failed and the tick has started the second one
C7_TickAfterFailure ==
    /\ Len(cycleTriggers) = 2
    /\ cycleRet.how = "analysis_error"
    /\ cyclePc = "analyzing"
    /\ ticksFired = 1

\* C8: every cycle that has returned recorded its duration and its
\* completion exactly once, whatever its outcome; every panic was recorded
\* as an error of type "panic", RunCycle returned nil after it and the loop
\* went on.
C8_EveryCycleRecorded ==
    /\ recorded.durations = Len(cycleTriggers) - cyclesInFlight
    /\ recorded.completions = Len(cycleTriggers) - cyclesInFlight
    /\ recorded.errors["panic"] = panics
    /\ cycleRet.how = "panic" => cycleRet.ret = NoReturn
    /\ (cycleRet.how = "panic" /\ ~ctxCancelled) => loopPc \in {"select", "inCycle"}

\* A cycle panicked and a later cycle failed in its apply step
C8_PanicThenApplyFailure ==
    /\ panics = 1
    /\ cycleRet.how = "apply_error"
    /\ recorded.durations = 2
    /\ recorded.errors["scaling_failed"] >= 1

\* C9: outside dry-run a cycle calls ApplyScaling once for each scalable
\* instance, in result order, going on after a failure; it returns nil
\* exactly when every call succeeded and otherwise the last failed call's
\* error.
C9_ApplyEveryScalable ==
    LET failed == {k \in 1..Len(applyLog) : applyLog[k].err # NilErr}
        last == CHOOSE k \in failed : \A j \in failed : j <= k
    IN  /\ cyclePc \in {"apply", "updating"} =>
              /\ Len(applyLog) = applyIdx - 1
              /\ Len(applyLog) <= Len(scalable)
              /\ \A k \in 1..Len(applyLog) : applyLog[k].inst = scalable[k].Instance.Name
        /\ (cyclesInFlight = 0 /\ cycleRet.how \in {"ok", "apply_error"}) =>
              /\ Len(applyLog) = recorded.counts[3]
              /\ (cycleRet.ret = NoReturn) = (failed = {})
              /\ failed # {} => cycleRet.ret = WrapError("apply_scaling", applyLog[last].err)

\* The first of two calls failed, the second succeeded, and the cycle
\* returned the first call's error
C9_FailureThenSuccess ==
    /\ cyclesInFlight = 0
    /\ cycleRet.how = "apply_error"
    /\ Len(applyLog) = 2
    /\ applyLog[1].err # NilErr
    /\ applyLog[2].err = NilErr

\* C10: for a summary with fewer than 10 data points, the empty summary
\* included, the engine returns a decision not to scale and no error,
\* whatever the utilization, the thresholds, the tier and the edition.
C10_InsufficientDataNeverScales ==
    (engOut.done /\ engOut.summary.DataPoints < 10) =>
        /\ ~engOut.decision.ShouldScale
        /\ engOut.err = Nil

\* Nine samples at 95 percent CPU on a known tier, with a threshold any
\* utilization exceeds, gave a decision not to scale
C10_NineBusySamples ==
    /\ engOut.done
    /\ engOut.summary.DataPoints = 9
    /\ engOut.summary.CPUP95 = 9500
    /\ engIn.cfg.ScaleUpThreshold = 0
    /\ engIn.instance.MachineType = RegName("db-n1-standard-2")
    /\ ~engOut.decision.ShouldScale

\* C11: with at least 10 data points the engine goes for a larger tier
\* whenever the CPU P95 or the memory P95 exceeds the scale-up threshold
\* times 100, also when the scale-down condition holds as well; it goes for
\* a smaller tier only when both P95 values are below the scale-down
\* threshold times 100 and the scale-up condition does not hold; otherwise
\* it reports the utilization as within range.  (P95 values are kept times
\* 100 and thresholds times 100.)
C11_ScaleUpWins ==
    (engOut.done /\ engOut.summary.DataPoints >= 10) =>
        LET up == \/ engOut.summary.CPUP95 > engIn.cfg.ScaleUpThreshold * 100
                  \/ engOut.summary.MemoryP95Pct > engIn.cfg.ScaleUpThreshold * 100
            down == /\ engOut.summary.CPUP95 < engIn.cfg.ScaleDownThreshold * 100
                    /\ engOut.summary.MemoryP95Pct < engIn.cfg.ScaleDownThreshold * 100
            d == engOut.decision
            larger == GetNextLargerMachineType(d.CurrentType, "ascending")
            smaller == GetNextSmallerMachineType(d.CurrentType, "ascending")
            wentUp == d.Reason = IF d.ShouldScale THEN "High resource utilization detected"
                                 ELSE "Cannot scale up: " \o larger.err
            wentDown == d.Reason = IF d.ShouldScale THEN "Low resource utilization detected"
                                   ELSE "Cannot scale down: " \o smaller.err
        IN  /\ up => wentUp
            /\ (~up /\ down) => wentDown
            /\ (~up /\ ~down) => d.Reason = "Current utilization is within target range"
            /\ wentDown => (down /\ ~up)
            /\ (d.ShouldScale /\ up) => IsUpscale(d.CurrentType, d.RecommendedType)
            /\ (d.ShouldScale /\ ~up) => IsUpscale(d.RecommendedType, d.CurrentType)

\* Ten samples at 95 percent CPU and 30 percent memory under the default
\* thresholds 0.8 and 0.5 gave a recommendation of the next larger tier
C11_BusyCpuIdleMemory ==
    /\ engOut.done
    /\ engIn.cfg = DefaultConfig
    /\ engOut.summary.DataPoints = 10
    /\ engOut.summary.CPUP95 = 9500
    /\ engOut.summary.MemoryP95Pct = 3000
    /\ engIn.instance.MachineType = RegName("db-n1-standard-2")
    /\ engOut.decision.ShouldScale
    /\ engOut.decision.RecommendedType = RegName("db-n1-standard-4")

\* C12: for an instance of an edition whose constraints say that scaling
\* brings downtime (Enterprise and every edition that is not Enterprise
\* Plus), every decision to scale expects downtime, whatever the last
\* scaled time and the direction.
C12_EnterpriseAlwaysDowntime ==
    (engOut.done /\ engIn.instance.Edition # EditionEnterprisePlus
                 /\ engOut.decision.ShouldScale) =>
        engOut.decision.DowntimeExpected

\* An instance of a foreign edition last scaled four hours ago got a
\* recommendation of a smaller tier with downtime expected
C12_ForeignEditionOldScaling ==
    /\ engOut.done
    /\ engIn.instance.Edition = "STANDARD"
    /\ engIn.instance.LastScaledTime = EngineNow - 4 * Hour
    /\ engOut.decision.ShouldScale
    /\ engOut.decision.Reason = "Low resource utilization detected"
    /\ engOut.decision.DowntimeExpected

\* C13: for an Enterprise Plus instance with a recommendation, downtime is
\* expected exactly when the last scaled time is known and less time has
\* passed since than the minimum interval of the direction (30 minutes up,
\* 3 hours down); the reported wait is then the remainder of the interval
\* rounded to the nearest minute, and there is no reason otherwise.
C13_EnterprisePlusInterval ==
    (engOut.done /\ engIn.instance.Edition = EditionEnterprisePlus
                 /\ engOut.decision.ShouldScale) =>
        LET d == engOut.decision
            known == engIn.instance.LastScaledTime # ZeroTime
            elapsed == engIn.at - engIn.instance.LastScaledTime
            interval == IF d.Reason = "High resource utilization detected"
                        THEN 30 * 60 ELSE 3 * 60 * 60
            remainder == interval - elapsed
        IN  /\ d.DowntimeExpected <=> (known /\ elapsed < interval)
            /\ d.DowntimeExpected =>
                   /\ d.DowntimeReason.wait % 60 = 0
                   /\ 2 * (d.DowntimeReason.wait - remainder) <= 60
                   /\ 2 * (remainder - d.DowntimeReason.wait) <= 60
                   /\ (remainder % 60 # 30) =>
                          2 * (d.DowntimeReason.wait - remainder) < 60
            /\ ~d.DowntimeExpected => d.DowntimeReason = NoReason

\* An Enterprise Plus instance last scaled 10 minutes ago got a
\* recommendation of a larger tier with downtime expected and a wait of 20
\* minutes
C13_TenMinutesAgoUpscale ==
    /\ engOut.done
    /\ engIn.instance.Edition = EditionEnterprisePlus
    /\ engIn.instance.LastScaledTime = engIn.at - 10 * 60
    /\ engOut.decision.ShouldScale
    /\ engOut.decision.Reason = "High resource utilization detected"
    /\ engOut.decision.DowntimeExpected
    /\ engOut.decision.DowntimeReason.wait = 20 * 60

\* C14: the engine never returns an error.  When the catalog does not know
\* the current tier, or has no larger (resp. smaller) tier for it, the
\* decision is not to scale, recommends no tier and carries the catalog's
\* error in its reason.
C14_CatalogFailureIsNoScale ==
    engOut.done =>
        /\ engOut.err = Nil
        /\ LET d == engOut.decision
               up == \/ engOut.summary.CPUP95 > engIn.cfg.ScaleUpThreshold * 100
                     \/ engOut.summary.MemoryP95Pct > engIn.cfg.ScaleUpThreshold * 100
               down == /\ engOut.summary.CPUP95 < engIn.cfg.ScaleDownThreshold * 100
                       /\ engOut.summary.MemoryP95Pct < engIn.cfg.ScaleDownThreshold * 100
               wanted == engOut.summary.DataPoints >= 10 /\ (up \/ down)
               catalog == IF up THEN GetNextLargerMachineType(engIn.instance.MachineType,
                                                              "ascending")
                          ELSE GetNextSmallerMachineType(engIn.instance.MachineType,
                                                         "ascending")
           IN  (wanted /\ catalog.err # "") =>
                   /\ ~d.ShouldScale
                   /\ d.RecommendedType = NoName
                   /\ d.Reason = (IF up THEN "Cannot scale up: " ELSE "Cannot scale down: ")
                                  \o catalog.err

\* A busy instance on a tier the catalog does not know got a decision not
\* to scale whose reason carries the lookup's error
C14_UnknownTier ==
    /\ engOut.done
    /\ engIn.instance.MachineType = RegName("db-unknown")
    /\ engOut.summary.DataPoints >= 10
    /\ engOut.summary.CPUP95 = 9500
    /\ engOut.err = Nil
    /\ ~engOut.decision.ShouldScale
    /\ engOut.decision.Reason = "Cannot scale up: machine type not found"

\* C15: for every registered tier that has a tier of its series and
\* size-class with strictly more CPU and strictly more memory,
\* GetNextLargerMachineType returns, under every iteration order of the
\* registry, the one such tier with the smallest CPU count.
C15_NextLargerIsSmallestStrictUpgrade ==
    (catOut.op = "larger" /\ catIn \in RegistryNames(MachineTypeRegistry)) =>
        LET reg == MachineTypeRegistry
            cur == CHOOSE k \in 1..Len(reg) : reg[k].Name = catIn
            strict == {k \in 1..Len(reg) : /\ reg[k].Series = reg[cur].Series
                                           /\ reg[k].Tier = reg[cur].Tier
                                           /\ reg[k].CPU > reg[cur].CPU
                                           /\ reg[k].MemoryGB > reg[cur].MemoryGB}
            best == {k \in strict : \A j \in strict : reg[k].CPU <= reg[j].CPU}
        IN  strict # {} =>
               /\ catOut.res.err = ""
               /\ Cardinality(best) = 1
               /\ \E k \in best : catOut.res.name = reg[k].Name

\* db-n1-standard-1 gave db-n1-standard-2 with the registry visited in
\* descending order
C15_StandardOneToTwo ==
    /\ catOut.op = "larger"
    /\ catOut.order = "descending"
    /\ catIn = RegName("db-n1-standard-1")
    /\ catOut.res = NameOk(RegName("db-n1-standard-2"))

\* C16: for every registered tier x for which the step down succeeds and
\* the step up from its result succeeds, that step up gives x again.
C16_LargerOfSmallerIsIdentity ==
    (/\ catOut.op = "roundtrip"
     /\ catIn \in RegistryNames(MachineTypeRegistry)
     /\ catOut.res.err = ""
     /\ catOut.back.err = "") =>
        catOut.back.name = catIn

\* db-n2-highmem-8 went down to db-n2-highmem-4 and up again to itself
C16_HighmemEightAndBack ==
    /\ catOut.op = "roundtrip"
    /\ catIn = RegName("db-n2-highmem-8")
    /\ catOut.res = NameOk(RegName("db-n2-highmem-4"))
    /\ catOut.back = NameOk(RegName("db-n2-highmem-8"))

\* C17: db-custom-<cpu>-<memMB> resolves exactly when cpu is between 1 and
\* 96 and memMB/1024 is between 0.9 and 6.5 times cpu; the resolved tier has
\* that CPU count, memMB/1024 GB of memory, the series custom, and the
\* size-class highmem exactly when it has more than 4 GB per vCPU, standard
\* otherwise.
C17_CustomResolvesInBand ==
    (catOut.op = "resolve" /\ catIn.kind = "custom") =>
        LET valid == /\ 1 <= catIn.cpu
                     /\ catIn.cpu <= 96
                     /\ 10 * catIn.memMB >= 9 * 1024 * catIn.cpu
                     /\ 10 * catIn.memMB <= 65 * 1024 * catIn.cpu
            mt == catOut.mt.mt
        IN  /\ (catOut.mt.err = "") <=> valid
            /\ valid =>
                   /\ mt.Name = catIn
                   /\ mt.CPU = catIn.cpu
                   /\ mt.MemoryGB = catIn.memMB * (GBUnit \div 1024)
                   /\ mt.Series = "custom"
                   /\ mt.Tier = IF catIn.memMB > 4 * 1024 * catIn.cpu THEN "highmem"
                                 ELSE "standard"

\* db-custom-4-16384 resolved to 4 vCPUs and 16 GB in size-class standard
C17_FourCpuSixteenGB ==
    /\ catOut.op = "resolve"
    /\ catIn = CustomName(4, 16384)
    /\ catOut.mt.err = ""
    /\ catOut.mt.mt.CPU = 4
    /\ catOut.mt.mt.MemoryGB = 16 * GBUnit
    /\ catOut.mt.mt.Tier = "standard"

\* C18: for every valid custom tier, an identifier returned by the step up
\* or the step down is a valid custom tier: its memory is a multiple of 256
\* MB inside the band of 0.9 to 6.5 GB per vCPU, and GetMachineType
\* resolves it.
C18_NextCustomIsValid ==
    (/\ catOut.op \in {"larger", "smaller"}
     /\ catIn.kind = "custom"
     /\ 1 <= catIn.cpu /\ catIn.cpu <= 96
     /\ 10 * catIn.memMB >= 9 * 1024 * catIn.cpu
     /\ 10 * catIn.memMB <= 65 * 1024 * catIn.cpu
     /\ catOut.res.err = "") =>
        /\ catOut.res.name.kind = "custom"
        /\ catOut.res.name.memMB % 256 = 0
        /\ 10 * catOut.res.name.memMB >= 9 * 1024 * catOut.res.name.cpu
        /\ 10 * catOut.res.name.memMB <= 65 * 1024 * catOut.res.name.cpu
        /\ catOut.mt.err = ""

\* C19: when both listings succeed and the project has instances,
\* AnalyzeAllInstances returns no error and a result holding exactly the
\* instances whose analysis succeeded, in listing order, and
\* AnalyzedInstances is the number of results, whichever instances failed.
C19_AnalysisSkipsFailures ==
    (projOut.op = "analyze" /\ projOut.listed /\ projIn.total > 0) =>
        LET succeeded == SelectSeq(InstanceList, LAMBDA i : projIn.answers[i].ok)
        IN  /\ projOut.err = Nil
            /\ Len(projOut.result.Results) = Len(succeeded)
            /\ \A k \in 1..Len(succeeded) :
                   projOut.result.Results[k].Instance.Name = succeeded[k]
            /\ projOut.result.AnalyzedInstances = Len(projOut.result.Results)

\* The first listed instance could not be analysed and the second one is the
\* only result
C19_FirstFailsSecondAnalysed ==
    /\ projOut.op = "analyze"
    /\ projOut.listed
    /\ projIn.total = Len(InstanceList)
    /\ ~projIn.answers[InstanceList[1]].ok
    /\ projIn.answers[InstanceList[2]].ok
    /\ projOut.err = Nil
    /\ Len(projOut.result.Results) = 1
    /\ projOut.result.Results[1].Instance.Name = InstanceList[2]
    /\ projOut.result.AnalyzedInstances = 1

\* C20: GenerateScalingPlan returns exactly the instances needing scaling,
\* in descending order of priority score, and operations of equal score in
\* the order in which their instances were discovered.
C20_PlanByPriorityTiesInDiscoveryOrder ==
    projOut.op = "plan" =>
        LET found == projIn.results
            needing == {found[k].Instance.Name : k \in {j \in 1..Len(found) : found[j].Decision.ShouldScale}}
            plan == projOut.plan
            pos(name) == CHOOSE k \in 1..Len(found) : found[k].Instance.Name = name
        IN  /\ Len(plan) = Cardinality(needing)
            /\ {plan[k].Instance : k \in 1..Len(plan)} = needing
            /\ \A k \in 1..Len(plan) : plan[k].Priority = calculatePriority(found[pos(plan[k].Instance)])
            /\ \A i, j \in 1..Len(plan) :
                   i < j => \/ plan[i].Priority > plan[j].Priority
                            \/ /\ plan[i].Priority = plan[j].Priority
                               /\ pos(plan[i].Instance) < pos(plan[j].Instance)

\* C21: for every non-empty sample array, also of length 1, the percentile
\* 100 is the array's maximum and the percentile 0 its minimum; for the
\* empty array calculatePercentile returns 0.  (Values are kept times 100.)
C21_PercentileEnds ==
    pctOut.done =>
        LET v == pctIn.values
            range == {v[k] : k \in 1..Len(v)}
        IN  /\ Len(v) = 0 => pctOut.value = 0
            /\ (Len(v) > 0 /\ pctIn.percentile = 100) =>
                   \E m \in range : (\A x \in range : m >= x) /\ pctOut.value = m * 100
            /\ (Len(v) > 0 /\ pctIn.percentile = 0) =>
                   \E m \in range : (\A x \in range : m <= x) /\ pctOut.value = m * 100

\* The percentile 0 of an unsorted array of three samples is its smallest one
C21_MinimumOfUnsorted ==
    /\ pctOut.done
    /\ pctIn = [values |-> << 7, 1, 100 >>, percentile |-> 0]
    /\ pctOut.value = 1 * 100

\* C22: when the project ID is empty, the interval is not positive or the
\* HTTP port is outside 1..65535, NewDaemon returns the invalid-configuration
\* error and no daemon, so that nothing of the daemon ever runs: Start is
\* not entered, no cycle is triggered and none returns an error.
C22_InvalidConfigurationIsFatalAtConstruction ==
    (\/ newIn.cfg.ProjectID = ""
     \/ newIn.interval <= 0
     \/ newIn.httpPort < 1
     \/ newIn.httpPort > 65535) =>
        /\ newOut.done =>
               /\ newOut.err = NewDaemonError("validate", "config", "invalid daemon configuration")
               /\ ~newOut.daemon
        /\ startPc = "unbuilt"
        /\ httpPc = "none"
        /\ loopPc = "none"
        /\ cycleTriggers = << >>
        /\ cycleRet.how = "none"

\* NewDaemon has refused the port 0 of an otherwise valid configuration
C22_PortZeroRefused ==
    /\ newOut.done
    /\ ~newIn.cfg.nil
    /\ newIn.cfg.ProjectID = "p"
    /\ newIn.interval = 5 * Minute
    /\ newIn.httpPort = 0
    /\ newIn.analyzerOk
    /\ ~newOut.daemon
    /\ newOut.err.Err = "invalid daemon configuration"

\* C23: the one-shot command returns an error whenever an instance it was
\* to handle failed, in its analysis or in the apply of its scaling, and
\* nil only when none failed, for named instances and for all instances.
C23_ExitReflectsInstanceFailures ==
    projOut.op \in {"specific", "all"} =>
        LET handled == IF projOut.op = "specific"
                       THEN {projIn.named[k] : k \in 1..Len(projIn.named)}
                       ELSE IF projOut.listed /\ projIn.total > 0 THEN Instances ELSE {}
            rows == projOut.cli.rows
            failed == {i \in handled :
                          \/ ~projIn.answers[i].ok
                          \/ \E k \in 1..Len(rows) : rows[k].Instance = i /\ rows[k].Error # Nil}
        IN  failed # {} => projOut.cli.err # Nil

\* C24: IsRecoverable holds only for the error of a failed analyzer
\* operation and never for nil; the error RunCycle returns when
\* AnalyzeAllInstances fails is recoverable, and runAutoscalingCycle logs it
\* without the non-recoverable line.
C24_AnalysisFailureIsRecoverable ==
    /\ IsRecoverable(cycleRet.ret) => cycleRet.how \in {"analysis_error", "apply_error"}
    /\ cycleRet.how = "analysis_error" =>
           /\ cycleRet.ret = WrapError("analyze_instances", Err("failed to list instances", ""))
           /\ IsRecoverable(cycleRet.ret)
           /\ ~cycleRet.emphasis

\* C25: once the context is cancelled, the loop waiting in its select starts
\* no further cycle, also when a tick is pending: it stays at the select
\* until it takes the cancellation and exits.
C25_NoCycleAfterCancellation ==
    [][(ctxCancelled /\ loopPc = "select") =>
           (cycleTriggers' = cycleTriggers /\ loopPc' \in {"select", "done"})]_vars

\* C26: when Start has returned, the context is cancelled, the autoscaling
\* loop has returned, no cycle and no ApplyScaling call of the daemon is in
\* flight, and the goroutine that shuts the HTTP server down has finished.
C26_StartReturnsAfterJoin ==
    startPc = "returned" =>
        /\ ctxCancelled
        /\ loopPc = "done"
        /\ cyclesInFlight = 0
        /\ cyclePc = "idle"
        /\ applyInFlight = 0
        /\ httpPc = "done"

\* Start returned after two cycles had been started, with the HTTP server
\* closed
C26_ReturnedAfterTwoCycles ==
    /\ startPc = "returned"
    /\ Len(cycleTriggers) = 2
    /\ serverPc = "closed"
    /\ loopPc = "done"
    /\ httpPc = "done"

\* C28: however the shutdown signal and the goroutine calling
\* HTTPServer.Start interleave, HTTPServer.Shutdown is called only once
\* HTTPServer.Start has assigned the server: no call finds it unassigned
\* (which ends the process), and a call that is under way or has returned
\* found it assigned.
C28_ShutdownOnlyAfterServerStart ==
    /\ ~crashed
    /\ httpPc \in {"shutdown", "done"} => serverPc \in {"serving", "failed", "closed"}

\* C29: once Stop has been called on the running daemon, whose
\* HTTPServer.Start has assigned the server, Start eventually returns,
\* whether or not a shutdown signal is ever delivered.
C29_StopLeadsToReturn ==
    (startPc = "waitSignal" /\ ctxCancelled /\ ~signalled /\ serverPc \in {"serving", "failed"})
        ~> (startPc = "returned")

\* C27: for every valid custom tier, a successful step up returns a tier
\* with no fewer vCPUs and no less memory and more of at least one; a
\* successful step down returns a tier with no more vCPUs and no more memory
\* and less of at least one, with at least 1 vCPU and 1 GB; a step that
\* fails is one whose adjustment left both unchanged.
C27_CustomStepInDirection ==
    (/\ catOut.op \in {"larger", "smaller"}
     /\ catIn.kind = "custom"
     /\ 1 <= catIn.cpu /\ catIn.cpu <= 96
     /\ 10 * catIn.memMB >= 9 * 1024 * catIn.cpu
     /\ 10 * catIn.memMB <= 65 * 1024 * catIn.cpu) =>
        LET next == catOut.res.name
        IN  /\ (catOut.op = "larger" /\ catOut.res.err = "") =>
                   /\ next.cpu >= catIn.cpu
                   /\ next.memMB >= catIn.memMB
                   /\ next.cpu > catIn.cpu \/ next.memMB > catIn.memMB
            /\ (catOut.op = "smaller" /\ catOut.res.err = "") =>
                   /\ next.cpu <= catIn.cpu
                   /\ next.memMB <= catIn.memMB
                   /\ next.cpu < catIn.cpu \/ next.memMB < catIn.memMB
                   /\ next.cpu >= 1
                   /\ next.memMB >= 1024
            /\ catOut.res.err # "" =>
                   catOut.res.err = IF catOut.op = "larger"
                                    THEN "already at maximum custom configuration"
                                    ELSE "already at minimum custom configuration"

\* C30: the instance counts a cycle records from its project analysis
\* satisfy needing-scaling <= analysed <= total, also when the project's
\* instances change between the two listings of the analysis.
C30_CountsOrdered ==
    /\ recorded.counts[3] <= recorded.counts[2]
    /\ recorded.counts[2] <= recorded.counts[1]

====
